---------------------------- MODULE Spec2Model ----------------------------
(***************************************************************************)
(* A model of the Monkey interpreter: the tokenizer (src/src/lex.rs), the  *)
(* Pratt parser (src/src/parse/mod.rs, and the earlier src/src/parse.rs),  *)
(* and the tree-walking evaluator (src/src/eval/mod.rs).                   *)
(*                                                                         *)
(* Bytes are one-character strings; the zero byte is NUL.  A Rust String   *)
(* is a sequence of bytes.  usize cursors are 0-based as in the source, so *)
(* input[i] of the source is input[i + 1] here.                            *)
(***************************************************************************)
EXTENDS Integers, Sequences, FiniteSets, TLC

VARIABLES
    input,      \* the source buffer handed to Lexer::new
    mode,       \* which driver runs: "next_token", "iterator", "parse", "parse_rs", "eval"
    lexer,      \* the Lexer struct driven directly (lex.rs:4-9)
    emitted,    \* the tokens the lexer has returned so far, in order
    iter_none,  \* TRUE once Iterator::next has returned None
    parser,     \* the Parser struct (parse/mod.rs:13-18), its lexer included
    program,    \* Program.statements accumulated by parse_program
    pc,         \* the driver's position
    frame,      \* the local variables of the function in progress
    result,     \* what the function in progress has returned
    overflow_checks, \* the build profile: TRUE when integer overflow panics
    evaluated,  \* the statements and expressions evaluated so far, in order
    envs        \* the Environments allocated so far (an Rc is an index)

vars == <<input, mode, lexer, emitted, iter_none, parser, program, pc, frame,
          result, overflow_checks, evaluated, envs>>

\* The value of a variable the running driver does not use.
Unused == "unused"

(***************************************************************************)
(* Bounds                                                                  *)
(***************************************************************************)
\* Longest byte buffer given to the tokenizer when it is driven directly.
MaxInput == 3
\* next_token calls made after the buffer is exhausted.
MaxExtraCalls == 2

(***************************************************************************)
(* Bytes                                                                   *)
(***************************************************************************)
NUL == "NUL"

Letters ==
    { "a", "b", "c", "d", "e", "f", "g", "h", "i", "j", "k", "l", "m",
      "n", "o", "p", "q", "r", "s", "t", "u", "v", "w", "x", "y", "z",
      "A", "B", "C", "D", "E", "F", "G", "H", "I", "J", "K", "L", "M",
      "N", "O", "P", "Q", "R", "S", "T", "U", "V", "W", "X", "Y", "Z" }

Digits == { "0", "1", "2", "3", "4", "5", "6", "7", "8", "9" }

\* u8::is_ascii_whitespace: space, tab, line feed, form feed, carriage return.
is_ascii_whitespace(ch) == ch \in { " ", "\t", "\n", "\f", "\r" }

is_ascii_alphabetic(ch) == ch \in Letters

is_ascii_digit(ch) == ch \in Digits

(***************************************************************************)
(* Tokens (token.rs).  lit is the payload of Ident and Int, <<>> otherwise.*)
(***************************************************************************)
Tok(kind) == [kind |-> kind, lit |-> <<>>]

TokLit(kind, lit) == [kind |-> kind, lit |-> lit]

Eof == Tok("Eof")

\* Token::is: equal, or both Ident, or both Int.
is(tok, other) ==
    \/ tok = other
    \/ tok.kind = "Ident" /\ other.kind = "Ident"
    \/ tok.kind = "Int" /\ other.kind = "Int"

(***************************************************************************)
(* Lexer (lex.rs)                                                          *)
(***************************************************************************)
read_char(l) ==
    [l EXCEPT
        !.ch = IF l.read_position >= Len(l.input)
               THEN NUL
               ELSE l.input[l.read_position + 1],
        !.position = l.read_position,
        !.read_position = l.read_position + 1]

Lexer_new(src) ==
    read_char([input |-> src, position |-> 0, read_position |-> 0, ch |-> NUL])

RECURSIVE skip_whitespace(_)
skip_whitespace(l) ==
    IF is_ascii_whitespace(l.ch) THEN skip_whitespace(read_char(l)) ELSE l

\* A look-ahead that answers the byte under the cursor.  Telling `=` from
\* `==` must not survive it.
peek_next_char_current(l) == l.ch

peek_next_char(l) ==
    IF l.read_position >= Len(l.input) THEN NUL ELSE l.input[l.read_position + 1]

\* The loop of read_identifier: the lexer after the run of letters and '_'.
RECURSIVE skip_identifier(_)
skip_identifier(l) ==
    IF is_ascii_alphabetic(l.ch) \/ l.ch = "_"
    THEN skip_identifier(read_char(l))
    ELSE l

\* The loop of read_number: the lexer after the run of digits.
RECURSIVE skip_number(_)
skip_number(l) ==
    IF is_ascii_digit(l.ch) THEN skip_number(read_char(l)) ELSE l

\* input[pos..position] of the source, as a String.
slice(l, pos, end) == SubSeq(l.input, pos + 1, end)

read_identifier(l) ==
    LET l2 == skip_identifier(l)
    IN  [lexer |-> l2, lit |-> slice(l, l.position, l2.position)]

read_number(l) ==
    LET l2 == skip_number(l)
    IN  [lexer |-> l2, lit |-> slice(l, l.position, l2.position)]

\* A lookup without the keyword table.  Keywords must not survive it.
lookup_identifier_no_keywords(lit) == TokLit("Ident", lit)

lookup_identifier(lit) ==
    CASE lit = <<"l", "e", "t">> -> Tok("Let")
      [] lit = <<"f", "n">> -> Tok("Function")
      [] lit = <<"i", "f">> -> Tok("If")
      [] lit = <<"e", "l", "s", "e">> -> Tok("Else")
      [] lit = <<"r", "e", "t", "u", "r", "n">> -> Tok("Return")
      [] lit = <<"t", "r", "u", "e">> -> Tok("True")
      [] lit = <<"f", "a", "l", "s", "e">> -> Tok("False")
      [] OTHER -> TokLit("Ident", lit)

\* The arms of next_token's match that end in the trailing read_char.
SingleCharKind(ch) ==
    CASE ch = "," -> "Comma"
      [] ch = ";" -> "Semicolon"
      [] ch = "(" -> "OpenParen"
      [] ch = ")" -> "CloseParen"
      [] ch = "{" -> "OpenCurly"
      [] ch = "}" -> "CloseCurly"
      [] ch = "+" -> "Plus"
      [] ch = "-" -> "Minus"
      [] ch = "*" -> "Asterisk"
      [] ch = "/" -> "Slash"
      [] ch = "<" -> "LessThan"
      [] ch = ">" -> "GreaterThan"
      [] ch = NUL -> "Eof"
      [] OTHER -> "Illegal"

\* next_token: the token returned and the lexer afterwards.
next_token(l0) ==
    LET l == skip_whitespace(l0)
    IN  IF l.ch = "=" THEN
            IF peek_next_char(l) = "="
            THEN [tok |-> Tok("Equal"), lexer |-> read_char(read_char(l))]
            ELSE [tok |-> Tok("Assign"), lexer |-> read_char(l)]
        ELSE IF l.ch = "!" THEN
            IF peek_next_char(l) = "="
            THEN [tok |-> Tok("NotEqual"), lexer |-> read_char(read_char(l))]
            ELSE [tok |-> Tok("Bang"), lexer |-> read_char(l)]
        ELSE IF is_ascii_alphabetic(l.ch) \/ l.ch = "_" THEN
            LET r == read_identifier(l)
            IN  [tok |-> lookup_identifier(r.lit), lexer |-> r.lexer]
        ELSE IF is_ascii_digit(l.ch) THEN
            LET r == read_number(l)
            IN  [tok |-> TokLit("Int", r.lit), lexer |-> r.lexer]
        ELSE [tok |-> Tok(SingleCharKind(l.ch)), lexer |-> read_char(l)]

(***************************************************************************)
(* The tokenizer driven directly: by repeated next_token calls (as         *)
(* repl.rs does) or through its Iterator implementation.                   *)
(***************************************************************************)
\* Bytes of the buffers given to the directly driven tokenizer.
\* A byte above 0x7F (one byte of a multi-byte UTF-8 character).
NonAscii == "0xC3"

LexBytes == { "a", "1", " ", "=", "!", ";", "@", NonAscii, NUL }

RECURSIVE SeqsUpTo(_, _)
SeqsUpTo(S, n) ==
    IF n = 0 THEN { <<>> }
    ELSE LET shorter == SeqsUpTo(S, n - 1)
         IN  shorter \cup { Append(s, x) : s \in shorter, x \in S }

\* The keyword table of lookup_identifier, as buffers.
KeywordBuffers ==
    { <<"l", "e", "t">>, <<"f", "n">>, <<"i", "f">>, <<"e", "l", "s", "e">>,
      <<"r", "e", "t", "u", "r", "n">>, <<"t", "r", "u", "e">>,
      <<"f", "a", "l", "s", "e">> }

\* Buffers of identifiers, keywords and numbers: every keyword alone, with a
\* letter, an underscore or a digit around it, cut short and in another
\* case, and runs of letters, underscores and digits side by side.
IdentifierBuffers ==
    KeywordBuffers
    \cup { Append(k, "x") : k \in KeywordBuffers }
    \cup { <<"x">> \o k : k \in KeywordBuffers }
    \cup { Append(k, "_") : k \in KeywordBuffers }
    \cup { Append(k, "1") : k \in KeywordBuffers }
    \cup { SubSeq(k, 1, Len(k) - 1) : k \in KeywordBuffers }
    \cup { <<"L", "e", "t">>, <<"F", "N">>, <<"i", "F">>, <<"T", "r", "u", "e">>,
           <<"f", "o", "o", "1">>, <<"1", "2", "a">>, <<"a", "_", "b">>,
           <<"_">>, <<"_", "1", "_">>, <<"f", "n", " ", "i", "f">> }

LexInputs == SeqsUpTo(LexBytes, MaxInput) \cup IdentifierBuffers

InitLex ==
    /\ input \in LexInputs
    /\ envs = Unused
    /\ mode \in { "next_token", "iterator" }
    /\ lexer = Lexer_new(input)
    /\ emitted = <<>>
    /\ iter_none = FALSE
    /\ parser = Unused
    /\ program = Unused
    /\ pc = Unused
    /\ frame = Unused
    /\ result = Unused
    /\ overflow_checks = Unused
    /\ evaluated = Unused

\* One next_token call by the caller.
NextTokenCall ==
    /\ mode = "next_token"
    /\ lexer.read_position <= Len(input) + 1 + MaxExtraCalls
    /\ LET r == next_token(lexer)
       IN  /\ lexer' = r.lexer
           /\ emitted' = Append(emitted, r.tok)
    /\ UNCHANGED envs
    /\ UNCHANGED <<input, mode, iter_none, parser, program, pc, frame, result,
                 overflow_checks, evaluated>>

\* Iterator::next returning Some(token).
IterNextSome ==
    /\ mode = "iterator"
    /\ lexer.ch # NUL
    /\ LET r == next_token(lexer)
       IN  /\ lexer' = r.lexer
           /\ emitted' = Append(emitted, r.tok)
    /\ UNCHANGED envs
    /\ UNCHANGED <<input, mode, iter_none, parser, program, pc, frame, result,
                 overflow_checks, evaluated>>

\* Iterator::next returning None.
IterNextNone ==
    /\ mode = "iterator"
    /\ lexer.ch = NUL
    /\ iter_none' = TRUE
    /\ UNCHANGED envs
    /\ UNCHANGED <<input, mode, lexer, emitted, parser, program, pc, frame, result,
                 overflow_checks, evaluated>>

NextLex == NextTokenCall \/ IterNextSome \/ IterNextNone

SpecLex == InitLex /\ [][NextLex]_vars

(***************************************************************************)
(* AST (ast.rs).  Option<T> is <<>> for None and <<x>> for Some(x).        *)
(***************************************************************************)
None == <<>>

Some(x) == <<x>>

Ident(name) == [kind |-> "Ident", val |-> name]

IntLiteral(i) == [kind |-> "IntLiteral", val |-> i]

BooleanLiteral(b) == [kind |-> "BooleanLiteral", val |-> b]

Prefix(operator, right) ==
    [kind |-> "Prefix", operator |-> operator, right |-> right]

Infix(left, operator, right) ==
    [kind |-> "Infix", left |-> left, operator |-> operator, right |-> right]

If(condition, consequence, alternative) ==
    [kind |-> "If", condition |-> condition, consequence |-> consequence,
     alternative |-> alternative]

FuncLiteral(parameters, body) ==
    [kind |-> "FuncLiteral", parameters |-> parameters, body |-> body]

Call(function, arguments) ==
    [kind |-> "Call", function |-> function, arguments |-> arguments]

Let(name, value) == [kind |-> "Let", name |-> name, value |-> value]

Return(expr) == [kind |-> "Return", val |-> expr]

Expression(expr) == [kind |-> "Expression", val |-> expr]

(***************************************************************************)
(* ParseError (parse/mod.rs:360-368)                                       *)
(***************************************************************************)
UnexpectedToken(expected, recieved) ==
    [kind |-> "UnexpectedToken", expected |-> expected, recieved |-> recieved]

ExpectedExpression == [kind |-> "ExpectedExpression"]

ParseIntError(lit) == [kind |-> "ParseIntError", val |-> lit]

ExpectedOperator == [kind |-> "ExpectedOperator"]

ExpectedIdentifier == [kind |-> "ExpectedIdentifier"]

ExpectedStatement == [kind |-> "ExpectedStatement"]

(***************************************************************************)
(* Precedence (parse/mod.rs:311-336)                                       *)
(***************************************************************************)
Lowest == 1
Equality == 2
LessGreater == 3
AddSub == 4
MultDiv == 5
PrefixPrec == 6
CallPrec == 7

\* A different table: every binary operator in one class.  Binding by
\* precedence must not survive it.
precedence_one_class(tok) ==
    CASE tok.kind = "OpenParen" -> CallPrec
      [] tok.kind \in { "Asterisk", "Slash", "Plus", "Minus", "LessThan",
                        "GreaterThan", "Equal", "NotEqual" } -> AddSub
      [] OTHER -> Lowest

precedence(tok) ==
    CASE tok.kind = "OpenParen" -> CallPrec
      [] tok.kind \in { "Asterisk", "Slash" } -> MultDiv
      [] tok.kind \in { "Plus", "Minus" } -> AddSub
      [] tok.kind \in { "LessThan", "GreaterThan" } -> LessGreater
      [] tok.kind \in { "Equal", "NotEqual" } -> Equality
      [] OTHER -> Lowest

\* Operator::try_from(&Token): <<operator>>, or <<>> for Err(ExpectedOperator).
Operator_try_from(tok) ==
    CASE tok.kind = "Equal" -> Some("Equals")
      [] tok.kind = "NotEqual" -> Some("NotEquals")
      [] tok.kind = "LessThan" -> Some("LessThan")
      [] tok.kind = "GreaterThan" -> Some("GreaterThan")
      [] tok.kind = "Plus" -> Some("Plus")
      [] tok.kind = "Minus" -> Some("Minus")
      [] tok.kind = "Asterisk" -> Some("Multiplication")
      [] tok.kind = "Slash" -> Some("Division")
      [] tok.kind = "Bang" -> Some("Bang")
      [] OTHER -> None

(***************************************************************************)
(* Integer literals: str::parse into the literal type of ast.rs (i32).     *)
(***************************************************************************)
I32_MAX == 2147483647

DigitValue(ch) ==
    CASE ch = "0" -> 0 [] ch = "1" -> 1 [] ch = "2" -> 2 [] ch = "3" -> 3
      [] ch = "4" -> 4 [] ch = "5" -> 5 [] ch = "6" -> 6 [] ch = "7" -> 7
      [] ch = "8" -> 8 [] ch = "9" -> 9

\* The digits of lit folded onto acc: <<value>>, or <<>> once the value
\* leaves the range of the literal type.
RECURSIVE parse_digits(_, _)
parse_digits(lit, acc) ==
    IF lit = <<>> THEN Some(acc)
    ELSE LET d == DigitValue(Head(lit))
         IN  IF acc > (I32_MAX - d) \div 10
             THEN None
             ELSE parse_digits(Tail(lit), acc * 10 + d)

\* str::parse::<i32> on a run of ASCII digits (the empty string is an error).
parse_int(lit) == IF lit = <<>> THEN None ELSE parse_digits(lit, 0)

(***************************************************************************)
(* Parser (parse/mod.rs).  A Result is [ok, p, val]: the parser afterwards *)
(* and the value or the ParseError.                                        *)
(***************************************************************************)
Ok(p, val) == [ok |-> TRUE, p |-> p, val |-> val]

Err(p, e) == [ok |-> FALSE, p |-> p, val |-> e]

\* The `?` operator: an Err returns from the enclosing function, an Ok
\* continues with the parser and the value.
Try(r, F(_, _)) == IF r.ok THEN F(r.p, r.val) ELSE r

\* A local binding: `let v = ...;` followed by the rest of the function.
With(v, F(_)) == F(v)

Parser_new(l) ==
    With(next_token(l), LAMBDA first :
    With(next_token(first.lexer), LAMBDA second :
        [lexer |-> second.lexer, cur |-> first.tok, peek |-> second.tok,
         errors |-> <<>>]))

step(p) ==
    With(next_token(p.lexer), LAMBDA r :
        [p EXCEPT !.cur = p.peek, !.peek = r.tok, !.lexer = r.lexer])

expect_next(p, expected) ==
    IF is(p.peek, expected)
    THEN Ok(step(p), <<>>)
    ELSE Err(p, UnexpectedToken(expected, p.peek))

expect_ident(p) ==
    IF p.peek.kind = "Ident" THEN Ok(step(p), <<>>) ELSE Err(p, ExpectedIdentifier)

\* The optional trailing `;` of a statement.
skip_semicolon(p) == IF is(p.peek, Tok("Semicolon")) THEN step(p) ELSE p

RECURSIVE parse_statement(_)
RECURSIVE parse_let_statement(_)
RECURSIVE parse_return_statement(_)
RECURSIVE parse_expression_statement(_)
RECURSIVE parse_block(_)
RECURSIVE parse_block_loop(_, _)
RECURSIVE parse_expression(_, _)
RECURSIVE parse_expression_loop(_, _, _)
RECURSIVE parse_prefix_expression(_)
RECURSIVE parse_infix_expression(_, _)
RECURSIVE parse_grouped_expression(_)
RECURSIVE parse_if_expression(_)
RECURSIVE parse_function_literal_expression(_)
RECURSIVE parse_function_call_expression(_, _)
RECURSIVE parse_function_parameters(_)
RECURSIVE parse_function_parameters_loop(_, _)
RECURSIVE parse_function_call_arguments(_)
RECURSIVE parse_function_call_arguments_loop(_, _)

\* [p, stmt]: stmt is Option<Statement>; an error is pushed onto p.errors.
parse_statement(p) ==
    With(CASE p.cur.kind = "Let" -> parse_let_statement(p)
           [] p.cur.kind = "Return" -> parse_return_statement(p)
           [] OTHER -> parse_expression_statement(p),
         LAMBDA r :
            IF r.ok
            THEN [p |-> r.p, stmt |-> Some(r.val)]
            ELSE [p |-> [r.p EXCEPT !.errors = Append(r.p.errors, r.val)],
                  stmt |-> None])

\* std::mem::take leaves Ident("") in peek_token before the step().
parse_let_statement(p) ==
    IF p.peek.kind # "Ident" THEN Err(p, ExpectedIdentifier)
    ELSE
        Try(expect_next(step([p EXCEPT !.peek.lit = <<>>]), Tok("Assign")),
            LAMBDA p2, u2 :
        Try(parse_expression(step(p2), Lowest), LAMBDA p3, value :
            Ok(skip_semicolon(p3), Let(p.peek.lit, value))))

parse_return_statement(p) ==
    Try(parse_expression(step(p), Lowest), LAMBDA p1, expr :
        Ok(skip_semicolon(p1), Return(expr)))

parse_expression_statement(p) ==
    Try(parse_expression(p, Lowest), LAMBDA p1, expr :
        Ok(skip_semicolon(p1), Expression(expr)))

\* The while loop of parse_block: [p, statements].
parse_block_loop(p, statements) ==
    IF ~is(p.cur, Tok("CloseCurly")) /\ ~is(p.cur, Eof)
    THEN With(parse_statement(p), LAMBDA r :
            parse_block_loop(step(r.p), statements \o r.stmt))
    ELSE [p |-> p, statements |-> statements]

\* A block that must end at `}`.  Closing a block at end-of-input
\* without an error must not survive it.
parse_block_closed(p) ==
    With(parse_block_loop(step(p), <<>>), LAMBDA r :
        IF ~is(r.p.cur, Tok("CloseCurly"))
        THEN Err(r.p, UnexpectedToken(Tok("CloseCurly"), r.p.cur))
        ELSE IF Len(r.statements) < 1
        THEN Err(r.p, ExpectedStatement)
        ELSE Ok(r.p, r.statements))

parse_block(p) ==
    With(parse_block_loop(step(p), <<>>), LAMBDA r :
        IF Len(r.statements) < 1
        THEN Err(r.p, ExpectedStatement)
        ELSE Ok(r.p, r.statements))

\* The while loop of parse_expression.
parse_expression_loop(p, expression, cur_precedence) ==
    IF ~is(p.cur, Tok("Semicolon")) /\ cur_precedence < precedence(p.peek)
    THEN With(step(p), LAMBDA p1 :
         Try(IF p1.cur.kind = "OpenParen"
             THEN parse_function_call_expression(p1, expression)
             ELSE parse_infix_expression(p1, expression),
             LAMBDA p2, e : parse_expression_loop(p2, e, cur_precedence)))
    ELSE Ok(p, expression)

parse_expression(p, cur_precedence) ==
    Try(CASE p.cur.kind = "Ident" ->
                Ok([p EXCEPT !.cur.lit = <<>>], Ident(p.cur.lit))
          [] p.cur.kind = "Int" ->
                With(parse_int(p.cur.lit), LAMBDA i :
                    IF i = None
                    THEN Err([p EXCEPT !.cur.lit = <<>>], ParseIntError(p.cur.lit))
                    ELSE Ok(p, IntLiteral(i[1])))
          [] p.cur.kind \in { "True", "False" } ->
                Ok(p, BooleanLiteral(is(p.cur, Tok("True"))))
          [] p.cur.kind \in { "Bang", "Minus" } -> parse_prefix_expression(p)
          [] p.cur.kind = "OpenParen" -> parse_grouped_expression(p)
          [] p.cur.kind = "If" -> parse_if_expression(p)
          [] p.cur.kind = "Function" -> parse_function_literal_expression(p)
          [] OTHER -> Err(p, ExpectedExpression),
        LAMBDA p1, expression :
            parse_expression_loop(p1, expression, cur_precedence))

parse_prefix_expression(p) ==
    With(Operator_try_from(p.cur), LAMBDA operator :
        IF operator = None THEN Err(p, ExpectedOperator)
        ELSE Try(parse_expression(step(p), PrefixPrec), LAMBDA p1, right :
                Ok(p1, Prefix(operator[1], right))))

\* A different parse_infix_expression: the right operand parsed one class
\* below the operator's own.  Left-associativity must not survive it.
parse_infix_expression_below(p, left) ==
    With(Operator_try_from(p.cur), LAMBDA operator :
        IF operator = None THEN Err(p, ExpectedOperator)
        ELSE Try(parse_expression(step(p), precedence(p.cur) - 1),
                 LAMBDA p1, right : Ok(p1, Infix(left, operator[1], right))))

parse_infix_expression(p, left) ==
    With(Operator_try_from(p.cur), LAMBDA operator :
        IF operator = None THEN Err(p, ExpectedOperator)
        ELSE Try(parse_expression(step(p), precedence(p.cur)),
                 LAMBDA p1, right : Ok(p1, Infix(left, operator[1], right))))

parse_grouped_expression(p) ==
    Try(parse_expression(step(p), Lowest), LAMBDA p1, expr :
    Try(expect_next(p1, Tok("CloseParen")), LAMBDA p2, u :
        Ok(p2, expr)))

\* The else branch of parse_if_expression: Result of Option<Block>.
parse_alternative(p) ==
    IF is(p.peek, Tok("Else"))
    THEN Try(expect_next(step(p), Tok("OpenCurly")), LAMBDA p1, u :
         Try(parse_block(p1), LAMBDA p2, block : Ok(p2, Some(block))))
    ELSE Ok(p, None)

parse_if_expression(p) ==
    Try(expect_next(p, Tok("OpenParen")), LAMBDA p1, u1 :
    Try(parse_expression(step(p1), Lowest), LAMBDA p2, condition :
    Try(expect_next(p2, Tok("CloseParen")), LAMBDA p3, u3 :
    Try(expect_next(p3, Tok("OpenCurly")), LAMBDA p4, u4 :
    Try(parse_block(p4), LAMBDA p5, consequence :
    Try(parse_alternative(p5), LAMBDA p6, alternative :
        Ok(p6, If(condition, consequence, alternative))))))))

parse_function_literal_expression(p) ==
    Try(expect_next(p, Tok("OpenParen")), LAMBDA p1, u1 :
    Try(parse_function_parameters(p1), LAMBDA p2, parameters :
    Try(expect_next(p2, Tok("OpenCurly")), LAMBDA p3, u3 :
    Try(parse_block(p3), LAMBDA p4, body :
        Ok(p4, FuncLiteral(parameters, body))))))

parse_function_call_expression(p, function) ==
    Try(parse_function_call_arguments(p), LAMBDA p1, arguments :
        Ok(p1, Call(function, arguments)))

\* The while loop of parse_function_parameters.
parse_function_parameters_loop(p, parameters) ==
    IF ~is(p.cur, Tok("CloseParen"))
    THEN Try(parse_expression(p, Lowest), LAMBDA p1, e :
         Try(IF is(p1.peek, Tok("Comma"))
             THEN expect_ident(step(p1))
             ELSE expect_next(p1, Tok("CloseParen")),
             LAMBDA p2, u :
                parse_function_parameters_loop(p2, Append(parameters, e))))
    ELSE Ok(p, parameters)

parse_function_parameters(p) ==
    IF is(p.peek, Tok("CloseParen")) THEN Ok(step(p), <<>>)
    ELSE Try(expect_ident(p), LAMBDA p1, u :
            parse_function_parameters_loop(p1, <<>>))

\* The while loop of parse_function_call_arguments.
parse_function_call_arguments_loop(p, arguments) ==
    IF ~is(p.cur, Tok("CloseParen"))
    THEN Try(parse_expression(p, Lowest), LAMBDA p1, e :
         Try(IF is(p1.peek, Tok("Comma"))
             THEN Ok(step(step(p1)), <<>>)
             ELSE expect_next(p1, Tok("CloseParen")),
             LAMBDA p2, u :
                parse_function_call_arguments_loop(p2, Append(arguments, e))))
    ELSE Ok(p, arguments)

parse_function_call_arguments(p) ==
    IF is(p.peek, Tok("CloseParen")) THEN Ok(step(p), <<>>)
    ELSE parse_function_call_arguments_loop(step(p), <<>>)

(***************************************************************************)
(* Source texts.  A word is the text of one token; a source is its words   *)
(* separated by single spaces.                                             *)
(***************************************************************************)
RECURSIVE Text(_)
Text(words) ==
    IF words = <<>> THEN <<>>
    ELSE IF Len(words) = 1 THEN Head(words)
    ELSE Head(words) \o <<" ">> \o Text(Tail(words))

kw_let == <<"l", "e", "t">>
kw_return == <<"r", "e", "t", "u", "r", "n">>
kw_if == <<"i", "f">>
kw_else == <<"e", "l", "s", "e">>
kw_fn == <<"f", "n">>
kw_true == <<"t", "r", "u", "e">>
kw_false == <<"f", "a", "l", "s", "e">>

\* The text of each binary operator, with the Operator it parses to and its
\* precedence class.
BinaryOps ==
    { [word |-> <<"=", "=">>, operator |-> "Equals", class |-> Equality],
      [word |-> <<"!", "=">>, operator |-> "NotEquals", class |-> Equality],
      [word |-> <<"<">>, operator |-> "LessThan", class |-> LessGreater],
      [word |-> <<">">>, operator |-> "GreaterThan", class |-> LessGreater],
      [word |-> <<"+">>, operator |-> "Plus", class |-> AddSub],
      [word |-> <<"-">>, operator |-> "Minus", class |-> AddSub],
      [word |-> <<"*">>, operator |-> "Multiplication", class |-> MultDiv],
      [word |-> <<"/">>, operator |-> "Division", class |-> MultDiv] }

PrefixOps ==
    { [word |-> <<"!">>, operator |-> "Bang"],
      [word |-> <<"-">>, operator |-> "Minus"] }

\* The operand at position i of an operator chain: a, b, c, ...
OperandNames == << <<"a">>, <<"b">>, <<"c">>, <<"d">>, <<"e">>, <<"f">> >>

\* Most operators in a chain e1 op1 e2 ... opn e(n+1).
MaxChain == 3

\* The words of the chain whose operators are ops (a sequence of BinaryOps).
RECURSIVE ChainWords(_, _)
ChainWords(ops, n) ==
    IF n = 0 THEN << OperandNames[1] >>
    ELSE ChainWords(ops, n - 1) \o << ops[n].word, OperandNames[n + 1] >>

OpChains == UNION { [1..n -> BinaryOps] : n \in 1..MaxChain }

ChainSources == { ChainWords(ops, Len(ops)) : ops \in OpChains }

\* A chain behind a prefix operator: - a * b, ! a == b, ...
PrefixedChainSources ==
    { <<pre.word>> \o ChainWords(ops, Len(ops)) :
        pre \in PrefixOps, ops \in { o \in OpChains : Len(o) <= 2 } }

\* Calls among operators: -f(x), f(x) * b, a + f(x), f(a, b), f()(x).
CallSources ==
    { <<pre.word, <<"f">>, <<"(">>, <<"x">>, <<")">> >> : pre \in PrefixOps }
    \cup { << <<"f">>, <<"(">>, <<"x">>, <<")">>, op.word, <<"b">> >> : op \in BinaryOps }
    \cup { << <<"a">>, op.word, <<"f">>, <<"(">>, <<"x">>, <<")">> >> : op \in BinaryOps }
    \cup { << <<"f">>, <<"(">>, <<"a">>, <<",">>, <<"b">>, <<")">> >>,
           << <<"f">>, <<"(">>, <<")">>, <<"(">>, <<"x">>, <<")">> >>,
           << <<"f">>, <<"(">>, <<")">> >> }

\* Most statements in one source text.
MaxStatements == 2

\* Statements that are syntactically broken, each with the ParseError its
\* first offending token raises.
BrokenStatements ==
    { [words |-> << kw_let, <<"=">>, <<"5">>, <<";">> >>,
       error |-> ExpectedIdentifier],
      [words |-> << kw_let, <<"y">>, <<"y">>, <<"1", "0">>, <<";">> >>,
       error |-> UnexpectedToken(Tok("Assign"), TokLit("Ident", <<"y">>))] }

\* Statements of every kind: well formed, broken, and cut off before their
\* end.
StatementWords ==
    { s.words : s \in BrokenStatements }
    \cup { << kw_let, <<"x">>, <<"=">>, <<"5">>, <<";">> >>,
           << kw_let, <<"x">>, <<"=">>, <<"5">> >>,
           << kw_return, <<"5">>, <<";">> >>,
           << kw_return, <<"5">> >>,
           << kw_return >>,
           << <<"(">>, <<"a">> >>,
           << <<"(">>, <<"a">>, <<"+">>, <<"b">>, <<")">>, <<"*">>, <<"c">> >>,
           << kw_if, <<"(">>, <<"a">>, <<")">>, <<"{">>, <<"b">>, <<"}">> >>,
           << kw_if, <<"(">>, <<"a">>, <<")">>, <<"{">>, <<"b">>, <<"}">>,
              kw_else, <<"{">>, kw_true, <<"}">> >>,
           << kw_if, <<"(">>, <<"a">>, <<")">>, <<"{">>, <<"b">> >>,
           << kw_if, <<"(">>, <<"a">>, <<")">>, <<"{">>, <<"}">> >>,
           << kw_fn, <<"(">>, <<"a">>, <<",">>, <<"b">>, <<")">>, <<"{">>,
              <<"a">>, <<"}">> >>,
           << kw_fn, <<"(">>, <<")">>, <<"{">>, kw_false, <<"}">> >>,
           << kw_fn, <<"(">>, <<"a">>, <<",">> >>,
           << <<"f">>, <<"(">>, <<"a">>, <<",">> >>,
           << <<"9", "9", "9", "9", "9", "9", "9", "9", "9", "9">> >>,
           << <<"@">> >> }

RECURSIVE Flatten(_)
Flatten(seqs) == IF seqs = <<>> THEN <<>> ELSE Head(seqs) \o Flatten(Tail(seqs))

StatementSources ==
    { Flatten(ss) : ss \in UNION { [1..n -> StatementWords] : n \in 1..MaxStatements } }

\* Blocks without statements: if (c) { }, if (c) { x } else { }, fn() { }.
EmptyBlockSources ==
    { << kw_if, <<"(">>, <<"c">>, <<")">>, <<"{">>, <<"}">> >>,
      << kw_if, <<"(">>, <<"c">>, <<")">>, <<"{">>, <<"x">>, <<"}">>,
         kw_else, <<"{">>, <<"}">> >>,
      << kw_fn, <<"(">>, <<")">>, <<"{">>, <<"}">> >> }

\* Digit runs around the ends of the 32-bit and 64-bit signed ranges.
IntLiteralRuns ==
    { <<"0">>, <<"7">>, <<"0", "4", "2">>,
      <<"2", "1", "4", "7", "4", "8", "3", "6", "4", "7">>,
      <<"2", "1", "4", "7", "4", "8", "3", "6", "4", "8">>,
      <<"9", "2", "2", "3", "3", "7", "2", "0", "3", "6", "8", "5", "4", "7",
        "7", "5", "8", "0", "7">>,
      <<"9", "2", "2", "3", "3", "7", "2", "0", "3", "6", "8", "5", "4", "7",
        "7", "5", "8", "0", "8">> }

IntLiteralSources == { << lit >> : lit \in IntLiteralRuns }

\* Blocks holding statements, each with the expression it parses to,
\* written with their closing brace and cut off before it.
BlockSources ==
    { [words |-> << kw_if, <<"(">>, <<"x">>, <<")">>, <<"{">>, <<"y">> >>,
       expr |-> If(Ident(<<"x">>), << Expression(Ident(<<"y">>)) >>, None)],
      [words |-> << kw_if, <<"(">>, <<"x">>, <<")">>, <<"{">>, <<"y">>, <<";">>,
                    kw_return, <<"z">>, <<";">> >>,
       expr |-> If(Ident(<<"x">>),
                   << Expression(Ident(<<"y">>)), Return(Ident(<<"z">>)) >>,
                   None)],
      [words |-> << kw_if, <<"(">>, <<"x">>, <<")">>, <<"{">>, <<"y">>, <<"}">>,
                    kw_else, <<"{">>, <<"z">> >>,
       expr |-> If(Ident(<<"x">>), << Expression(Ident(<<"y">>)) >>,
                   Some(<< Expression(Ident(<<"z">>)) >>))],
      [words |-> << kw_fn, <<"(">>, <<")">>, <<"{">>, <<"y">> >>,
       expr |-> FuncLiteral(<<>>, << Expression(Ident(<<"y">>)) >>)] }

BlockEndSources ==
    { b.words : b \in BlockSources }
    \cup { Append(b.words, <<"}">>) : b \in BlockSources }

ParseSources ==
    ChainSources \cup PrefixedChainSources \cup CallSources
    \cup StatementSources \cup EmptyBlockSources \cup IntLiteralSources
    \cup BlockEndSources

ParseInputs == { Text(ws) : ws \in ParseSources }

(***************************************************************************)
(* parse_program driven one loop iteration at a time.                      *)
(***************************************************************************)
InitParse ==
    /\ input \in ParseInputs
    /\ envs = Unused
    /\ mode = "parse"
    /\ lexer = Unused
    /\ emitted = Unused
    /\ iter_none = Unused
    /\ parser = Parser_new(Lexer_new(input))
    /\ program = <<>>
    /\ pc = "parse_program"
    /\ frame = Unused
    /\ result = Unused
    /\ overflow_checks = Unused
    /\ evaluated = Unused

\* One iteration of parse_program's loop: parse_statement, then step.
ParseProgramStep ==
    /\ mode \in { "parse", "eval", "runtime", "roundtrip" }
    /\ pc = "parse_program"
    /\ ~is(parser.cur, Eof)
    /\ program' = program \o parse_statement(parser).stmt
    /\ parser' = step(parse_statement(parser).p)
    /\ UNCHANGED envs
    /\ UNCHANGED <<input, mode, lexer, emitted, iter_none, pc, frame, result,
                 overflow_checks, evaluated>>

\* parse_program returns the program.
ParseProgramReturn ==
    /\ mode \in { "parse", "eval", "runtime", "roundtrip" }
    /\ pc = "parse_program"
    /\ is(parser.cur, Eof)
    /\ pc' = "done"
    /\ UNCHANGED envs
    /\ UNCHANGED <<input, mode, lexer, emitted, iter_none, parser, program, frame, result,
                 overflow_checks, evaluated>>

NextParse == ParseProgramStep \/ ParseProgramReturn

SpecParse == InitParse /\ [][NextParse]_vars

(***************************************************************************)
(* The earlier parser (parse.rs): parse_let_statement and                  *)
(* parse_return_statement, whose loops skip to the next `;`, driven one    *)
(* loop iteration at a time.  Parser, step and expect_next are the same    *)
(* there (parse.rs:7-43).                                                  *)
(***************************************************************************)
\* Most words between the head of a statement and its end.
MaxBody == 2

BodyWords == { <<"5">>, <<"a">>, <<"+">> }

StatementHeads ==
    { << kw_let, <<"x">>, <<"=">> >>,
      << kw_let, <<"=">> >>,
      << kw_let, <<"y">>, <<"y">> >>,
      << kw_return >> }

\* Let and return statements, with and without their terminating `;`.
LetReturnSources ==
    { head \o body \o tail :
        head \in StatementHeads,
        body \in SeqsUpTo(BodyWords, MaxBody),
        tail \in { <<>>, << <<";">> >> } }

\* The name in the Token::Ident that parse_let_statement expects.
VariableName ==
    <<"/", "*", " ", "V", "a", "r", "i", "a", "b", "l", "e", " ",
      "N", "a", "m", "e", " ", "*", "/">>

\* The placeholder both loops return for the skipped expression.
SkippedValue == Ident(<<"v", "a", "l", "u", "e">>)

InitParseRs ==
    /\ input \in { Text(ws) : ws \in LetReturnSources }
    /\ envs = Unused
    /\ mode = "parse_rs"
    /\ lexer = Unused
    /\ emitted = Unused
    /\ iter_none = Unused
    /\ parser = Parser_new(Lexer_new(input))
    /\ program = Unused
    /\ pc = IF parser.cur.kind = "Let"
            THEN "parse_let_statement"
            ELSE "parse_return_statement"
    /\ frame = Unused
    /\ result = Unused
    /\ overflow_checks = Unused
    /\ evaluated = Unused

\* parse_let_statement up to its loop: Ok(name) or the Err it returns.
LetHead(p) ==
    Try(expect_next(p, TokLit("Ident", VariableName)), LAMBDA p1, u1 :
    Try(expect_next(p1, Tok("Assign")), LAMBDA p2, u2 :
        Ok(p2, p1.cur.lit)))

RsLetHead ==
    /\ mode = "parse_rs"
    /\ pc = "parse_let_statement"
    /\ parser' = LetHead(parser).p
    /\ IF LetHead(parser).ok
       THEN /\ frame' = [name |-> LetHead(parser).val]
            /\ pc' = "let_loop"
            /\ UNCHANGED result
       ELSE /\ result' = [ok |-> FALSE, val |-> LetHead(parser).val]
            /\ pc' = "returned"
            /\ UNCHANGED frame
    /\ UNCHANGED envs
    /\ UNCHANGED <<input, mode, lexer, emitted, iter_none, program,
                 overflow_checks, evaluated>>

\* parse_return_statement up to its loop.
RsReturnHead ==
    /\ mode = "parse_rs"
    /\ pc = "parse_return_statement"
    /\ parser' = step(parser)
    /\ pc' = "return_loop"
    /\ UNCHANGED envs
    /\ UNCHANGED <<input, mode, lexer, emitted, iter_none, program, frame, result,
                 overflow_checks, evaluated>>

\* One iteration of `while self.current_token != Token::Semicolon`.
RsSkipStep ==
    /\ mode = "parse_rs"
    /\ pc \in { "let_loop", "return_loop" }
    /\ parser.cur # Tok("Semicolon")
    /\ parser.lexer.read_position <= Len(input) + 1 + MaxExtraCalls
    /\ parser' = step(parser)
    /\ UNCHANGED envs
    /\ UNCHANGED <<input, mode, lexer, emitted, iter_none, program, pc, frame, result,
                 overflow_checks, evaluated>>

\* The loop of parse_let_statement ends and the function returns.
RsLetReturn ==
    /\ mode = "parse_rs"
    /\ pc = "let_loop"
    /\ parser.cur = Tok("Semicolon")
    /\ result' = [ok |-> TRUE, val |-> <<frame.name, SkippedValue>>]
    /\ pc' = "returned"
    /\ UNCHANGED envs
    /\ UNCHANGED <<input, mode, lexer, emitted, iter_none, parser, program, frame,
                 overflow_checks, evaluated>>

\* The loop of parse_return_statement ends and the function returns.
RsReturnReturn ==
    /\ mode = "parse_rs"
    /\ pc = "return_loop"
    /\ parser.cur = Tok("Semicolon")
    /\ result' = [ok |-> TRUE, val |-> SkippedValue]
    /\ pc' = "returned"
    /\ UNCHANGED envs
    /\ UNCHANGED <<input, mode, lexer, emitted, iter_none, parser, program, frame,
                 overflow_checks, evaluated>>

NextParseRs ==
    RsLetHead \/ RsReturnHead \/ RsSkipStep \/ RsLetReturn \/ RsReturnReturn

SpecParseRs == InitParseRs /\ [][NextParseRs]_vars

(***************************************************************************)
(* Objects (eval/object.rs).  Messages are strings.  Panic is not an       *)
(* Object: it is the outcome of an evaluation the host aborts.             *)
(***************************************************************************)
Integer(i) == [kind |-> "Integer", val |-> i]

Boolean(b) == [kind |-> "Boolean", val |-> b]

ReturnValue(v) == [kind |-> "ReturnValue", val |-> v]

Error(s) == [kind |-> "Error", val |-> s]

Null == [kind |-> "Null"]

Panic(msg) == [kind |-> "Panic", val |-> msg]

\* Integer(0) is falsy as well.
is_truthy_nonzero(obj) ==
    obj \notin { Null, Boolean(FALSE), Integer(0) }

is_truthy(obj) ==
    CASE obj.kind = "Null" -> FALSE
      [] obj.kind = "Boolean" -> obj.val
      [] OTHER -> TRUE

\* The text of a String held as a sequence of bytes.
RECURSIVE Str(_)
Str(s) == IF s = <<>> THEN "" ELSE Head(s) \o Str(Tail(s))

display_bool(b) == IF b THEN "true" ELSE "false"

\* impl Display for Object
RECURSIVE display_object(_)
display_object(obj) ==
    CASE obj.kind = "Integer" -> ToString(obj.val)
      [] obj.kind = "Boolean" -> display_bool(obj.val)
      [] obj.kind = "ReturnValue" -> display_object(obj.val)
      [] obj.kind = "Error" -> obj.val
      [] obj.kind = "Null" -> "null"

\* impl Display for Operator
display_operator(op) ==
    CASE op = "Bang" -> "!"
      [] op = "Plus" -> "+"
      [] op = "Minus" -> "-"
      [] op = "Multiplication" -> "*"
      [] op = "Division" -> "/"
      [] op = "GreaterThan" -> ">"
      [] op = "LessThan" -> "<"
      [] op = "Equals" -> "=="
      [] op = "NotEquals" -> "!="

RECURSIVE display_expr(_)
RECURSIVE display_stmt(_)
RECURSIVE display_ast(_)
RECURSIVE display_expression_list(_)

\* impl Display for Ast: the statements joined by ", ".
display_ast(statements) ==
    IF statements = <<>> THEN ""
    ELSE IF Len(statements) = 1 THEN display_stmt(statements[1])
    ELSE display_stmt(statements[1]) \o ", " \o display_ast(Tail(statements))

\* impl Display for ExpressionList: the expressions joined by ", ".
display_expression_list(exprs) ==
    IF exprs = <<>> THEN ""
    ELSE IF Len(exprs) = 1 THEN display_expr(exprs[1])
    ELSE display_expr(exprs[1]) \o ", " \o display_expression_list(Tail(exprs))

\* impl Display for Stmt
display_stmt(stmt) ==
    CASE stmt.kind = "Let" ->
            "let " \o Str(stmt.name) \o " = " \o display_expr(stmt.value) \o ";"
      [] stmt.kind = "Return" -> "return " \o display_expr(stmt.val) \o ";"
      [] stmt.kind = "Expression" -> display_expr(stmt.val)

\* impl Display for Expr
display_expr(expr) ==
    CASE expr.kind = "Ident" -> Str(expr.val)
      [] expr.kind = "IntLiteral" -> ToString(expr.val)
      [] expr.kind = "BooleanLiteral" -> display_bool(expr.val)
      [] expr.kind = "Prefix" ->
            "(" \o display_operator(expr.operator) \o display_expr(expr.right) \o ")"
      [] expr.kind = "Infix" ->
            "(" \o display_expr(expr.left) \o " " \o display_operator(expr.operator)
                \o " " \o display_expr(expr.right) \o ")"
      [] expr.kind = "If" ->
            "if " \o display_expr(expr.condition) \o " "
                \o display_ast(expr.consequence)
                \o (IF expr.alternative = None THEN ""
                    ELSE " else " \o display_ast(expr.alternative[1]))
      [] expr.kind = "FuncLiteral" ->
            "fn(" \o display_expression_list(expr.parameters) \o ") { "
                \o display_ast(expr.body) \o " }"
      [] expr.kind = "Call" ->
            display_expr(expr.function) \o "("
                \o display_expression_list(expr.arguments) \o ")"

(***************************************************************************)
(* i32 arithmetic.  An operation whose result leaves the range panics when *)
(* the build has overflow checks and wraps around otherwise; division by   *)
(* zero and i32::MIN / -1 panic in every build.  Every intermediate value  *)
(* stays within the range.                                                 *)
(***************************************************************************)
I32_MIN == (-I32_MAX) - 1

add_overflows(l, r) ==
    \/ r > 0 /\ l > I32_MAX - r
    \/ r < 0 /\ l < I32_MIN - r

wrapping_add(l, r) ==
    IF r > 0 /\ l > I32_MAX - r THEN (l + I32_MIN) + (r + I32_MIN)
    ELSE IF r < 0 /\ l < I32_MIN - r THEN (l - I32_MIN) + (r - I32_MIN)
    ELSE l + r

sub_overflows(l, r) ==
    \/ r < 0 /\ l > I32_MAX + r
    \/ r > 0 /\ l < I32_MIN + r

wrapping_sub(l, r) ==
    IF r < 0 /\ l > I32_MAX + r THEN (l + I32_MIN) - (r - I32_MIN)
    ELSE IF r > 0 /\ l < I32_MIN + r THEN (l - I32_MIN) - (r + I32_MIN)
    ELSE l - r

wrapping_neg(i) == IF i = I32_MIN THEN I32_MIN ELSE -i

\* n / d rounded up, for d > 0.
CeilDiv(n, d) == IF n % d = 0 THEN n \div d ELSE (n \div d) + 1

\* The least q with q * d >= I32_MIN, for d > 0.
MinQuotient(d) == CeilDiv(I32_MIN, d)

mul_overflows(l, r) ==
    CASE l = 0 \/ r = 0 -> FALSE
      [] l > 0 /\ r > 0 -> l > I32_MAX \div r
      [] l > 0 /\ r < 0 -> r < MinQuotient(l)
      [] l < 0 /\ r > 0 -> l < MinQuotient(r)
      [] l < 0 /\ r < 0 ->
            \/ l = I32_MIN
            \/ r = I32_MIN
            \/ (-l) > I32_MAX \div (-r)

\* The base-256 digits of an i32, least significant first; the last one
\* carries the sign.
Limbs(x) ==
    << x % 256, (x \div 256) % 256, (x \div 65536) % 256, x \div 16777216 >>

\* The i32 whose digits modulo 2^32 are the column sums c, carries included.
FromColumns(c) ==
    LET t1 == c[1]
        t2 == c[2] + (t1 \div 256)
        t3 == c[3] + (t2 \div 256)
        t4 == (c[4] + (t3 \div 256)) % 256
    IN  (IF t4 >= 128 THEN t4 - 256 ELSE t4) * 16777216
        + (t3 % 256) * 65536 + (t2 % 256) * 256 + (t1 % 256)

\* The column sums of the long multiplication of the digits a and b, up to
\* the last column that reaches the low 32 bits.
MulColumns(a, b) ==
    << a[1] * b[1],
       a[1] * b[2] + a[2] * b[1],
       a[1] * b[3] + a[2] * b[2] + a[3] * b[1],
       a[1] * b[4] + a[2] * b[3] + a[3] * b[2] + a[4] * b[1] >>

wrapping_mul(l, r) == FromColumns(MulColumns(Limbs(l), Limbs(r)))

\* l / r rounded toward zero, for r # 0 and (l, r) # (i32::MIN, -1).
truncating_div(l, r) ==
    CASE r > 0 /\ l >= 0 -> l \div r
      [] r > 0 /\ l < 0 -> CeilDiv(l, r)
      [] r < 0 /\ l >= 0 -> IF r = I32_MIN THEN 0 ELSE -(l \div (-r))
      [] r < 0 /\ l < 0 ->
            IF r = I32_MIN THEN (IF l = I32_MIN THEN 1 ELSE 0)
            ELSE IF l = I32_MIN THEN ((I32_MAX - ((-r) - 1)) \div (-r)) + 1
            ELSE (-l) \div (-r)

eval_plus_arith(l, r) ==
    IF ~add_overflows(l, r) THEN Integer(l + r)
    ELSE IF overflow_checks THEN Panic("attempt to add with overflow")
    ELSE Integer(wrapping_add(l, r))

eval_minus_arith(l, r) ==
    IF ~sub_overflows(l, r) THEN Integer(l - r)
    ELSE IF overflow_checks THEN Panic("attempt to subtract with overflow")
    ELSE Integer(wrapping_sub(l, r))

eval_mult_arith(l, r) ==
    IF ~mul_overflows(l, r) THEN Integer(l * r)
    ELSE IF overflow_checks THEN Panic("attempt to multiply with overflow")
    ELSE Integer(wrapping_mul(l, r))

eval_div_arith(l, r) ==
    IF r = 0 THEN Panic("attempt to divide by zero")
    ELSE IF l = I32_MIN /\ r = -1 THEN Panic("attempt to divide with overflow")
    ELSE Integer(truncating_div(l, r))

eval_neg_arith(i) ==
    IF i # I32_MIN THEN Integer(-i)
    ELSE IF overflow_checks THEN Panic("attempt to negate with overflow")
    ELSE Integer(I32_MIN)

(***************************************************************************)
(* Evaluator (eval/mod.rs).  An evaluation function yields [obj, log]: the *)
(* Object it returns, or Panic, and the events of the evaluation in order: *)
(* a statement begun, a statement ended with its Object, an expression     *)
(* ended with its Object.                                                  *)
(***************************************************************************)
Ret(obj) == [obj |-> obj, log |-> <<>>]

\* r, then F on its Object; a panic in r ends the evaluation.
Then(r, F(_)) ==
    IF r.obj.kind = "Panic" THEN r
    ELSE With(F(r.obj), LAMBDA r2 : [obj |-> r2.obj, log |-> r.log \o r2.log])

\* r with the event E(obj) recorded on its return.
Logged(r, E(_)) ==
    IF r.obj.kind = "Panic" THEN r
    ELSE [obj |-> r.obj, log |-> Append(r.log, E(r.obj))]

StmtBegin == [ev |-> "stmt_begin"]

StmtEnd(stmt, obj) == [ev |-> "stmt_end", stmt |-> stmt.kind, obj |-> obj]

ExprEnd(obj) == [ev |-> "expr_end", obj |-> obj]

eval_bang_prefix(value) == Boolean(~is_truthy(value))

eval_minus_prefix(value) ==
    IF value.kind = "Integer" THEN eval_neg_arith(value.val)
    ELSE Error("No such negative value of " \o display_object(value))

BothIntegers(left, right) == left.kind = "Integer" /\ right.kind = "Integer"

BothBooleans(left, right) == left.kind = "Boolean" /\ right.kind = "Boolean"

CannotCompare(left, right) ==
    Error("Cannot compare equality between " \o display_object(left)
          \o " and " \o display_object(right))

eval_plus_infix(left, right) ==
    IF BothIntegers(left, right) THEN eval_plus_arith(left.val, right.val)
    ELSE Error("Cannot add " \o display_object(left) \o " to "
               \o display_object(right))

eval_minus_infix(left, right) ==
    IF BothIntegers(left, right) THEN eval_minus_arith(left.val, right.val)
    ELSE Error("Cannot subtract " \o display_object(left) \o " from "
               \o display_object(right))

eval_mult_infix(left, right) ==
    IF BothIntegers(left, right) THEN eval_mult_arith(left.val, right.val)
    ELSE Error("Cannot multiply " \o display_object(left) \o " and "
               \o display_object(right))

eval_div_infix(left, right) ==
    IF BothIntegers(left, right) THEN eval_div_arith(left.val, right.val)
    ELSE Error("Cannot divide " \o display_object(left) \o " and "
               \o display_object(right))

eval_less_infix(left, right) ==
    IF BothIntegers(left, right) THEN Boolean(left.val < right.val)
    ELSE CannotCompare(left, right)

eval_greater_infix(left, right) ==
    IF BothIntegers(left, right) THEN Boolean(left.val > right.val)
    ELSE CannotCompare(left, right)

eval_equal_infix(left, right) ==
    IF BothIntegers(left, right) \/ BothBooleans(left, right)
    THEN Boolean(left.val = right.val)
    ELSE CannotCompare(left, right)

eval_not_equal_infix(left, right) ==
    IF BothIntegers(left, right) \/ BothBooleans(left, right)
    THEN Boolean(left.val # right.val)
    ELSE CannotCompare(left, right)

RECURSIVE eval_block(_, _, _)
RECURSIVE eval_statement(_)
RECURSIVE eval_expression(_)
RECURSIVE eval_prefix_expression(_, _)
RECURSIVE eval_infix_expression(_, _, _)
RECURSIVE eval_if_expr(_, _, _)

\* eval_block from its i-th statement on, obj being the last Object.
eval_block(statements, i, obj) ==
    IF i > Len(statements) THEN Ret(obj)
    ELSE Then(eval_statement(statements[i]), LAMBDA o :
            IF o.kind \in { "ReturnValue", "Error" } THEN Ret(o)
            ELSE eval_block(statements, i + 1, o))

eval_statement(stmt) ==
    With(Logged(CASE stmt.kind = "Let" -> Ret(Panic("not yet implemented"))
                  [] stmt.kind = "Return" ->
                        Then(eval_expression(stmt.val), LAMBDA obj :
                            Ret(ReturnValue(obj)))
                  [] stmt.kind = "Expression" -> eval_expression(stmt.val),
                LAMBDA obj : StmtEnd(stmt, obj)),
         LAMBDA r : [obj |-> r.obj, log |-> <<StmtBegin>> \o r.log])

eval_expression(expr) ==
    Logged(CASE expr.kind = "IntLiteral" -> Ret(Integer(expr.val))
             [] expr.kind = "BooleanLiteral" -> Ret(Boolean(expr.val))
             [] expr.kind = "Prefix" ->
                    eval_prefix_expression(expr.operator, expr.right)
             [] expr.kind = "Infix" ->
                    eval_infix_expression(expr.left, expr.operator, expr.right)
             [] expr.kind = "If" ->
                    eval_if_expr(expr.condition, expr.consequence, expr.alternative)
             [] OTHER ->
                    Ret(Error("Unsupported expression type: " \o display_expr(expr))),
           ExprEnd)

eval_prefix_expression(op, right) ==
    Then(eval_expression(right), LAMBDA operand :
        CASE op = "Bang" -> Ret(eval_bang_prefix(operand))
          [] op = "Minus" -> Ret(eval_minus_prefix(operand))
          [] OTHER ->
                Ret(Error("Unsupported operator as prefix: " \o display_operator(op))))

\* F(eval_expression(left), eval_expression(right)), left before right.
eval_operands(left, right, F(_, _)) ==
    Then(eval_expression(left), LAMBDA l :
    Then(eval_expression(right), LAMBDA r : Ret(F(l, r))))

eval_infix_expression(left, op, right) ==
    CASE op = "Plus" -> eval_operands(left, right, eval_plus_infix)
      [] op = "Minus" -> eval_operands(left, right, eval_minus_infix)
      [] op = "Multiplication" -> eval_operands(left, right, eval_mult_infix)
      [] op = "Division" -> eval_operands(left, right, eval_div_infix)
      [] op = "LessThan" -> eval_operands(left, right, eval_less_infix)
      [] op = "GreaterThan" -> eval_operands(left, right, eval_greater_infix)
      [] op = "Equals" -> eval_operands(left, right, eval_equal_infix)
      [] op = "NotEquals" -> eval_operands(left, right, eval_not_equal_infix)
      [] OTHER ->
            Ret(Error("Unsupported operator as infix: " \o display_operator(op)))

eval_if_expr(cond, consequence, alt) ==
    Then(eval_expression(cond), LAMBDA c :
        IF is_truthy(c) THEN eval_block(consequence, 1, Null)
        ELSE IF alt # None THEN eval_block(alt[1], 1, Null)
        ELSE Ret(Null))

(***************************************************************************)
(* Programs given to the evaluator, as source texts.                       *)
(***************************************************************************)
w_true == << kw_true >>
w_false == << kw_false >>
w_5 == << <<"5">> >>
w_1 == << <<"1">> >>
w_0 == << <<"0">> >>
w_max == << <<"2", "1", "4", "7", "4", "8", "3", "6", "4", "7">> >>

Paren(e) == << <<"(">> >> \o e \o << <<")">> >>

Braces(ss) == << <<"{">> >> \o ss \o << <<"}">> >>

IfWords(c, ss) == << kw_if >> \o Paren(c) \o Braces(ss)

IfElseWords(c, ss, tt) == IfWords(c, ss) \o << kw_else >> \o Braces(tt)

ExprStmt(e) == e \o << <<";">> >>

ReturnStmt(e) == << kw_return >> \o e \o << <<";">> >>

LetStmt(name, e) == << kw_let, name, <<"=">> >> \o e \o << <<";">> >>

EvalAtoms == { w_5, w_0, w_true, w_max }

\* Literals, one operator applied to literals, and the expressions the
\* evaluator does not support.
EvalSimple ==
    EvalAtoms
    \cup { << pre.word >> \o e : pre \in PrefixOps, e \in EvalAtoms }
    \cup { l \o << op.word >> \o r : l \in EvalAtoms, r \in EvalAtoms, op \in BinaryOps }
    \cup { << <<"a">> >>,
           << <<"f">>, <<"(">>, <<"5">>, <<",">>, <<"a">>, <<")">> >>,
           << kw_fn, <<"(">>, <<"a">>, <<",">>, <<"b">>, <<")">>, <<"{">>,
              kw_let, <<"c">>, <<"=">>, <<"a">>, <<";">>,
              kw_return, <<"!">>, <<"c">>, <<";">>, <<"}">> >>,
           << <<"(">>, <<"-">> >> \o w_max \o << <<"-">>, <<"1">>, <<")">>,
              <<"/">>, <<"-">>, <<"1">> >>,
           << <<"-">>, <<"(">>, <<"-">> >> \o w_max \o << <<"-">>, <<"1">>, <<")">> >> }

\* Expressions placed under an operator, as a condition or in a return.
EvalInner ==
    { w_5, w_true,
      << <<"-">>, kw_true >>,
      << <<"5">>, <<"+">>, kw_true >>,
      IfWords(w_true, ReturnStmt(w_1)),
      IfWords(w_true, << <<"-">>, kw_true >>),
      IfWords(w_false, w_1),
      IfElseWords(w_false, w_1, ExprStmt(w_5) \o ReturnStmt(w_0)) }

EvalWrapped ==
    UNION { { << <<"!">> >> \o Paren(e),
              << <<"-">> >> \o Paren(e),
              Paren(e) \o << <<"+">>, <<"1">> >>,
              << <<"1">>, <<"+">> >> \o Paren(e),
              IfElseWords(e, w_1, w_0) } : e \in EvalInner }

EvalExprs == EvalSimple \cup EvalInner \cup EvalWrapped

EvalStatements ==
    { ExprStmt(e) : e \in EvalExprs } \cup { ReturnStmt(e) : e \in EvalExprs }
    \cup { LetStmt(<<"x">>, w_5), LetStmt(<<"x">>, << <<"-">>, kw_true >>) }

\* A statement with statements before and after it.
EvalSequences ==
    { ExprStmt(w_5) \o s \o ExprStmt(w_1) :
        s \in { ExprStmt(e) : e \in EvalInner \cup EvalWrapped }
              \cup { ReturnStmt(e) : e \in EvalInner \cup EvalWrapped } }

EvalNested ==
    { \* if (10 > 1) { if (10 > 1) { return 10; } return 1; }
      IfWords(<< <<"1", "0">>, <<">">>, <<"1">> >>,
              IfWords(<< <<"1", "0">>, <<">">>, <<"1">> >>,
                      ReturnStmt(<< <<"1", "0">> >>))
              \o ReturnStmt(w_1)),
      \* 9; return 2 * 5; 9;
      ExprStmt(<< <<"9">> >>) \o ReturnStmt(<< <<"2">>, <<"*">>, <<"5">> >>)
          \o ExprStmt(<< <<"9">> >>),
      \* 5 + true; 5;
      ExprStmt(<< <<"5">>, <<"+">>, kw_true >>) \o ExprStmt(w_5),
      \* if (true) { if (true) { true * 5; } 1; } 2;
      ExprStmt(IfWords(w_true,
                       ExprStmt(IfWords(w_true,
                                        ExprStmt(<< kw_true, <<"*">>, <<"5">> >>)))
                       \o ExprStmt(w_1)))
          \o ExprStmt(<< <<"2">> >>),
      \* the empty program
      <<>> }

\* Conditions of every truthiness: true, false, 0, 5 and Null.
TruthConditions ==
    { w_true, w_false, w_0, w_5, Paren(IfWords(w_false, w_1)) }

\* !c, !!c, if (c) { 5 } and if (c) { 5 } else { 1 }
EvalTruthiness ==
    UNION { { ExprStmt(<< <<"!">> >> \o c),
              ExprStmt(<< <<"!">>, <<"!">> >> \o c),
              ExprStmt(IfWords(c, w_5)),
              ExprStmt(IfElseWords(c, w_5, w_1)) } : c \in TruthConditions }

EvalSources ==
    EvalStatements \cup EvalSequences \cup EvalNested \cup EvalTruthiness

EvalInputs == { Text(ws) : ws \in EvalSources }

(***************************************************************************)
(* The evaluator driven as its tests drive it (eval/mod.rs:184-188): the   *)
(* source is parsed, then eval_program runs one statement at a time.       *)
(***************************************************************************)
InitEval ==
    /\ input \in EvalInputs
    /\ envs = Unused
    /\ mode = "eval"
    /\ lexer = Unused
    /\ emitted = Unused
    /\ iter_none = Unused
    /\ parser = Parser_new(Lexer_new(input))
    /\ program = <<>>
    /\ pc = "parse_program"
    /\ frame = Unused
    /\ result = Unused
    /\ overflow_checks \in BOOLEAN
    /\ evaluated = <<>>

\* eval_program is called with the parsed program.
EvalProgramCall ==
    /\ mode = "eval"
    /\ pc = "done"
    /\ frame' = [i |-> 1, obj |-> Null]
    /\ pc' = "eval_program"
    /\ UNCHANGED envs
    /\ UNCHANGED <<input, mode, lexer, emitted, iter_none, parser, program,
                   result, overflow_checks, evaluated>>

\* eval_statement on the statement eval_program's loop has reached.
StatementResult == eval_statement(program[frame.i])

\* One iteration of eval_program's loop.
EvalProgramStep ==
    /\ mode = "eval"
    /\ pc = "eval_program"
    /\ frame.i <= Len(program)
    /\ evaluated' = evaluated \o StatementResult.log
    /\ CASE StatementResult.obj.kind = "Panic" ->
                /\ result' = StatementResult.obj
                /\ pc' = "panicked"
                /\ UNCHANGED frame
         [] StatementResult.obj.kind = "ReturnValue" ->
                /\ result' = StatementResult.obj.val
                /\ pc' = "returned"
                /\ UNCHANGED frame
         [] StatementResult.obj.kind = "Error" ->
                /\ result' = StatementResult.obj
                /\ pc' = "returned"
                /\ UNCHANGED frame
         [] OTHER ->
                /\ frame' = [i |-> frame.i + 1, obj |-> StatementResult.obj]
                /\ UNCHANGED <<pc, result>>
    /\ UNCHANGED envs
    /\ UNCHANGED <<input, mode, lexer, emitted, iter_none, parser, program,
                   overflow_checks>>

\* eval_program's loop is over and the last Object is returned.
EvalProgramReturn ==
    /\ mode = "eval"
    /\ pc = "eval_program"
    /\ frame.i > Len(program)
    /\ result' = frame.obj
    /\ pc' = "returned"
    /\ UNCHANGED envs
    /\ UNCHANGED <<input, mode, lexer, emitted, iter_none, parser, program,
                   frame, overflow_checks, evaluated>>

NextEval ==
    \/ ParseProgramStep
    \/ ParseProgramReturn
    \/ EvalProgramCall
    \/ EvalProgramStep
    \/ EvalProgramReturn

SpecEval == InitEval /\ [][NextEval]_vars

(***************************************************************************)
(* Environment (eval/env.rs).  An Rc<RefCell<Environment>> is the index of *)
(* the Environment in the sequence of the Environments allocated so far;   *)
(* a store is a function from the names it binds to their Objects.         *)
(***************************************************************************)
\* HashMap::insert: the last write of a key wins.
insert(store, key, value) ==
    [k \in DOMAIN store \cup { key } |-> IF k = key THEN value ELSE store[k]]

Environment_new == [store |-> <<>>, parent |-> None]

\* The new Environment has no parent.
child_of_detached(parent) == [store |-> <<>>, parent |-> None]

\* A child whose parent link names the frame after its parent.  An acyclic
\* chain must not survive it.
child_of_next(parent) == [store |-> <<>>, parent |-> Some(parent + 1)]

child_of(parent) == [store |-> <<>>, parent |-> Some(parent)]

\* The frame written to is the nearest frame that already binds the key.
RECURSIVE set_nearest_binding(_, _, _, _)
set_nearest_binding(heap, e, key, value) ==
    IF key \in DOMAIN heap[e].store \/ heap[e].parent = None
    THEN [heap EXCEPT ![e].store = insert(@, key, value)]
    ELSE IF key \in DOMAIN heap[heap[e].parent[1]].store
    THEN set_nearest_binding(heap, heap[e].parent[1], key, value)
    ELSE [heap EXCEPT ![e].store = insert(@, key, value)]

\* Environment::set on the Environment at e.
set(heap, e, key, value) == [heap EXCEPT ![e].store = insert(@, key, value)]

\* keys.zip(values).for_each(set), from the i-th pair on.
RECURSIVE with_from(_, _, _, _, _)
with_from(heap, e, keys, values, i) ==
    IF i > Len(keys) \/ i > Len(values) THEN heap
    ELSE with_from(set(heap, e, keys[i], values[i]), e, keys, values, i + 1)

\* The values are zipped to the keys from the last value to the first.
with_reversed(heap, e, keys, values) ==
    with_from(heap, e, keys,
              [i \in 1..Len(values) |-> values[Len(values) + 1 - i]], 1)

\* Nothing is bound unless there are as many values as keys.
with_equal_lengths(heap, e, keys, values) ==
    IF Len(keys) = Len(values) THEN with_from(heap, e, keys, values, 1) ELSE heap

\* Environment::with on the Environment at e.
with(heap, e, keys, values) == with_from(heap, e, keys, values, 1)

\* The parent's own store is the only one looked at.
check_parent_one_level(heap, e, key) ==
    IF heap[e].parent = None THEN None
    ELSE IF key \in DOMAIN heap[heap[e].parent[1]].store
    THEN Some(heap[heap[e].parent[1]].store[key])
    ELSE None

RECURSIVE check_parent(_, _, _)
check_parent(heap, e, key) ==
    IF heap[e].parent = None THEN None
    ELSE IF key \in DOMAIN heap[heap[e].parent[1]].store
    THEN Some(heap[heap[e].parent[1]].store[key])
    ELSE check_parent(heap, heap[e].parent[1], key)

\* Environment::get on the Environment at e.
\* A lookup that never leaves its own frame: what a frame holding a copy
\* of nothing, instead of a reference to its parent, would answer.
get_own_frame(heap, e, key) ==
    IF key \in DOMAIN heap[e].store THEN Some(heap[e].store[key]) ELSE None

get(heap, e, key) ==
    IF key \in DOMAIN heap[e].store THEN Some(heap[e].store[key])
    ELSE check_parent(heap, e, key)

(***************************************************************************)
(* The Environment driven directly, as its tests drive it                  *)
(* (eval/env.rs:69-104): Environments are made under one root, written    *)
(* and read in any order.                                                  *)
(***************************************************************************)
\* Most Environments allocated by one driver.
MaxEnvs == 3

EnvKeys == { <<"a">>, <<"b">> }

EnvValues == { Integer(1), Integer(2) }

\* Most pairs given to one Environment::with call.
MaxPairs == 2

InitEnv ==
    /\ mode = "env"
    /\ envs = << Environment_new >>
    /\ result = [op |-> "new", env |-> 1]
    /\ input = Unused
    /\ lexer = Unused
    /\ emitted = Unused
    /\ iter_none = Unused
    /\ parser = Unused
    /\ program = Unused
    /\ pc = Unused
    /\ frame = Unused
    /\ overflow_checks = Unused
    /\ evaluated = Unused

\* Rc::new(RefCell::new(Environment::child_of(&parent)))
EnvChildOf ==
    /\ mode = "env"
    /\ Len(envs) < MaxEnvs
    /\ \E parent \in 1..Len(envs) :
        /\ envs' = Append(envs, child_of(parent))
        /\ result' = [op |-> "child_of", env |-> Len(envs) + 1]
    /\ UNCHANGED <<input, mode, lexer, emitted, iter_none, parser, program, pc,
                   frame, overflow_checks, evaluated>>

\* env.borrow_mut().set(key, value)
EnvSet ==
    /\ mode = "env"
    /\ \E e \in 1..Len(envs), key \in EnvKeys, value \in EnvValues :
        /\ envs' = set(envs, e, key, value)
        /\ result' = [op |-> "set", env |-> e]
    /\ UNCHANGED <<input, mode, lexer, emitted, iter_none, parser, program, pc,
                   frame, overflow_checks, evaluated>>

\* Environment::child_of(&parent).with(keys, values): with takes its
\* Environment by value, before an Rc of it exists.
EnvWith ==
    /\ mode = "env"
    /\ \E e \in 1..Len(envs) :
        /\ result = [op |-> "child_of", env |-> e]
        /\ \E keys \in SeqsUpTo(EnvKeys, MaxPairs),
              values \in SeqsUpTo(EnvValues, MaxPairs) :
            /\ envs' = with(envs, e, keys, values)
            /\ result' = [op |-> "with", env |-> e]
    /\ UNCHANGED <<input, mode, lexer, emitted, iter_none, parser, program, pc,
                   frame, overflow_checks, evaluated>>

\* env.borrow().get(key)
EnvGet ==
    /\ mode = "env"
    /\ \E e \in 1..Len(envs), key \in EnvKeys :
        result' = [op |-> "get", env |-> e, key |-> key,
                   value |-> get(envs, e, key)]
    /\ UNCHANGED <<input, mode, lexer, emitted, iter_none, parser, program, pc,
                   frame, overflow_checks, evaluated, envs>>

NextEnv ==
    \/ EnvChildOf
    \/ EnvSet
    \/ EnvWith
    \/ EnvGet

SpecEnv == InitEnv /\ [][NextEnv]_vars

(***************************************************************************)
(* Runtime: the evaluator with Environments that eval/test.rs drives.  Its *)
(* code is not among the sources; it is modelled from section 4.4 of the   *)
(* specification, over the Environment of eval/env.rs and the operators of *)
(* eval/mod.rs.  An evaluation yields [obj, heap]: the Object, or Panic,   *)
(* and the Environments after it.                                          *)
(***************************************************************************)
Func(params, body, env) ==
    [kind |-> "Func", params |-> params, body |-> body, env |-> env]

RtRet(obj, heap) == [obj |-> obj, heap |-> heap]

\* r, then F on its Object and Environments; a panic in r ends the evaluation.
RtThen(r, F(_, _)) == IF r.obj.kind = "Panic" THEN r ELSE F(r.obj, r.heap)

\* The two Objects that short-circuit normal reduction.
IsSentinel(obj) == obj.kind \in { "ReturnValue", "Error" }

\* The names of a function literal's parameters.
ParamNames(parameters) == [i \in 1..Len(parameters) |-> parameters[i].val]

rt_display_object(obj) ==
    IF obj.kind = "Func" THEN "fn" ELSE display_object(obj)

rt_infix(op, left, right) ==
    CASE op = "Plus" -> eval_plus_infix(left, right)
      [] op = "Minus" -> eval_minus_infix(left, right)
      [] op = "Multiplication" -> eval_mult_infix(left, right)
      [] op = "Division" -> eval_div_infix(left, right)
      [] op = "LessThan" -> eval_less_infix(left, right)
      [] op = "GreaterThan" -> eval_greater_infix(left, right)
      [] op = "Equals" -> eval_equal_infix(left, right)
      [] op = "NotEquals" -> eval_not_equal_infix(left, right)
      [] OTHER -> Error("Unsupported operator as infix: " \o display_operator(op))

\* Identifier lookup in the frame e.
rt_eval_ident(name, heap, e) ==
    IF get(heap, e, name) = None
    THEN RtRet(Error("Identifier not found: " \o Str(name)), heap)
    ELSE RtRet(get(heap, e, name)[1], heap)

\* The call's result is the body's, a ReturnValue left as it is.
rt_call_result_kept(obj, heap) == RtRet(obj, heap)

\* if the result is ReturnValue(v), unwrap to v
rt_call_result(obj, heap) ==
    IF obj.kind = "ReturnValue" THEN RtRet(obj.val, heap) ELSE RtRet(obj, heap)

RECURSIVE rt_eval_block(_, _, _, _, _)
RECURSIVE rt_eval_statement(_, _, _)
RECURSIVE rt_eval_expression(_, _, _)
RECURSIVE rt_eval_arguments(_, _, _, _, _)
RECURSIVE rt_apply(_, _, _)
RECURSIVE rt_eval_call(_, _, _, _)

\* A block from its i-th statement on in the frame e, obj being the value
\* of the last statement.
rt_eval_block(statements, i, obj, heap, e) ==
    IF i > Len(statements) THEN RtRet(obj, heap)
    ELSE RtThen(rt_eval_statement(statements[i], heap, e), LAMBDA o, h :
            IF IsSentinel(o) THEN RtRet(o, h)
            ELSE rt_eval_block(statements, i + 1, o, h, e))

rt_eval_statement(stmt, heap, e) ==
    CASE stmt.kind = "Let" ->
            RtThen(rt_eval_expression(stmt.value, heap, e), LAMBDA o, h :
                IF IsSentinel(o) THEN RtRet(o, h)
                ELSE RtRet(o, set(h, e, stmt.name, o)))
      [] stmt.kind = "Return" ->
            RtThen(rt_eval_expression(stmt.val, heap, e), LAMBDA o, h :
                IF o.kind = "Error" THEN RtRet(o, h)
                ELSE RtRet(ReturnValue(o), h))
      [] stmt.kind = "Expression" -> rt_eval_expression(stmt.val, heap, e)

\* The arguments from the i-th on, in the caller's frame e; the Object is
\* the first sentinel met, or the values of all the arguments.
rt_eval_arguments(arguments, i, values, heap, e) ==
    IF i > Len(arguments) THEN RtRet([kind |-> "Values", val |-> values], heap)
    ELSE RtThen(rt_eval_expression(arguments[i], heap, e), LAMBDA o, h :
            IF IsSentinel(o) THEN RtRet(o, h)
            ELSE rt_eval_arguments(arguments, i + 1, Append(values, o), h, e))

\* The body of func in a new frame under its closure environment, the
\* parameters bound to the values by position.
rt_apply(func, values, heap) ==
    RtThen(rt_eval_block(func.body, 1, Null,
                         with(Append(heap, child_of(func.env)), Len(heap) + 1,
                              ParamNames(func.params), values),
                         Len(heap) + 1),
           rt_call_result)

rt_eval_call(function, arguments, heap, e) ==
    RtThen(rt_eval_expression(function, heap, e), LAMBDA f, h :
        IF IsSentinel(f) THEN RtRet(f, h)
        ELSE IF f.kind # "Func"
        THEN RtRet(Error(rt_display_object(f) \o " is not callable"), h)
        ELSE RtThen(rt_eval_arguments(arguments, 1, <<>>, h, e), LAMBDA a, h2 :
                IF IsSentinel(a) THEN RtRet(a, h2)
                ELSE rt_apply(f, a.val, h2)))

rt_eval_expression(expr, heap, e) ==
    CASE expr.kind = "IntLiteral" -> RtRet(Integer(expr.val), heap)
      [] expr.kind = "BooleanLiteral" -> RtRet(Boolean(expr.val), heap)
      [] expr.kind = "Ident" -> rt_eval_ident(expr.val, heap, e)
      [] expr.kind = "Prefix" ->
            RtThen(rt_eval_expression(expr.right, heap, e), LAMBDA o, h :
                IF IsSentinel(o) THEN RtRet(o, h)
                ELSE IF expr.operator = "Bang" THEN RtRet(eval_bang_prefix(o), h)
                ELSE RtRet(eval_minus_prefix(o), h))
      [] expr.kind = "Infix" ->
            RtThen(rt_eval_expression(expr.left, heap, e), LAMBDA l, h :
                IF IsSentinel(l) THEN RtRet(l, h)
                ELSE RtThen(rt_eval_expression(expr.right, h, e), LAMBDA r, h2 :
                        IF IsSentinel(r) THEN RtRet(r, h2)
                        ELSE RtRet(rt_infix(expr.operator, l, r), h2)))
      [] expr.kind = "If" ->
            RtThen(rt_eval_expression(expr.condition, heap, e), LAMBDA c, h :
                IF IsSentinel(c) THEN RtRet(c, h)
                ELSE IF is_truthy(c) THEN rt_eval_block(expr.consequence, 1, Null, h, e)
                ELSE IF expr.alternative # None
                THEN rt_eval_block(expr.alternative[1], 1, Null, h, e)
                ELSE RtRet(Null, h))
      [] expr.kind = "FuncLiteral" ->
            RtRet(Func(expr.parameters, expr.body, e), heap)
      [] expr.kind = "Call" ->
            rt_eval_call(expr.function, expr.arguments, heap, e)

(***************************************************************************)
(* Programs given to Runtime, as source texts.                             *)
(***************************************************************************)
Commas(ws) ==
    IF ws = <<>> THEN <<>>
    ELSE << ws[1] >>
         \o Flatten([i \in 1..(Len(ws) - 1) |-> << <<",">>, ws[i + 1] >>])

\* fn ( params ) { body }
FnWords(params, body) == << kw_fn >> \o Paren(Commas(params)) \o Braces(body)

\* f ( a1 , a2 )
CallWords(f, args) == f \o Paren(Flatten([i \in 1..Len(args) |-> 
    IF i = 1 THEN args[i] ELSE << <<",">> >> \o args[i]]))

n_x == <<"x">>
n_y == <<"y">>
n_f == <<"f">>
n_g == <<"g">>
n_newAdder == <<"n", "e", "w", "A", "d", "d", "e", "r">>
n_addTwo == <<"a", "d", "d", "T", "w", "o">>
n_addSix == <<"a", "d", "d", "S", "i", "x">>
n_identity == <<"i", "d", "e", "n", "t", "i", "t", "y">>
n_foobar == <<"f", "o", "o", "b", "a", "r">>

\* The integer literals the programs are built from, each with its value.
RtLiterals ==
    { [word |-> <<"2">>, val |-> 2], [word |-> <<"3">>, val |-> 3],
      [word |-> <<"7">>, val |-> 7] }

\* let newAdder = fn(x) { fn(y) { x + y }; };
NewAdderDef ==
    LetStmt(n_newAdder,
            FnWords(<< n_x >>,
                    ExprStmt(FnWords(<< n_y >>, << n_x, <<"+">>, n_y >>))))

\* let newAdder = ...; let addTwo = newAdder(a); addTwo(b);
ClosureWords(a, b) ==
    NewAdderDef
    \o LetStmt(n_addTwo, CallWords(<< n_newAdder >>, << << a >> >>))
    \o ExprStmt(CallWords(<< n_addTwo >>, << << b >> >>))

\* let newAdder = ...; let addTwo = newAdder(a); let addSix = newAdder(b);
\* called(3);
TwoClosuresWords(a, b, called) ==
    NewAdderDef
    \o LetStmt(n_addTwo, CallWords(<< n_newAdder >>, << << a >> >>))
    \o LetStmt(n_addSix, CallWords(<< n_newAdder >>, << << b >> >>))
    \o ExprStmt(CallWords(<< called >>, << << <<"3">> >> >>))

\* let x = a; let f = fn() { x }; let g = fn(x) { f() }; g(b);
LexicalWords(a, b) ==
    LetStmt(n_x, << a >>)
    \o LetStmt(n_f, FnWords(<<>>, << n_x >>))
    \o LetStmt(n_g, FnWords(<< n_x >>, CallWords(<< n_f >>, <<>>)))
    \o ExprStmt(CallWords(<< n_g >>, << << b >> >>))

\* let f = fn(x, y) { x - y }; f(a, b);
PositionalWords(a, b) ==
    LetStmt(n_f, FnWords(<< n_x, n_y >>, << n_x, <<"-">>, n_y >>))
    \o ExprStmt(CallWords(<< n_f >>, << << a >>, << b >> >>))

\* let identity = fn(y) { y }; let g = fn(x) { identity(x - a) }; g(b);
CallerFrameWords(a, b) ==
    LetStmt(n_identity, FnWords(<< n_y >>, << n_y >>))
    \o LetStmt(n_g, FnWords(<< n_x >>,
                           CallWords(<< n_identity >>,
                                     << << n_x, <<"-">>, a >> >>)))
    \o ExprStmt(CallWords(<< n_g >>, << << b >> >>))

\* let f = fn(x, y) { x }; f(-true, 5 + true);
ArgumentOrderWords ==
    LetStmt(n_f, FnWords(<< n_x, n_y >>, << n_x >>))
    \o ExprStmt(CallWords(<< n_f >>, << << <<"-">>, kw_true >>,
                                        << <<"5">>, <<"+">>, kw_true >> >>))

\* let f = fn(x) { return x; }; f(a); 9;
ReturnThenWords(a) ==
    LetStmt(n_f, FnWords(<< n_x >>, ReturnStmt(<< n_x >>)))
    \o ExprStmt(CallWords(<< n_f >>, << << a >> >>))
    \o ExprStmt(<< <<"9">> >>)

\* let identity = fn(x) { return x; }; identity(a);
IdentityWords(a) ==
    LetStmt(n_identity, FnWords(<< n_x >>, ReturnStmt(<< n_x >>)))
    \o ExprStmt(CallWords(<< n_identity >>, << << a >> >>))

\* let f = fn(x) { if (x) { return a; } b }; f(c) + 1;
ReturnInIfWords(a, b, c) ==
    LetStmt(n_f, FnWords(<< n_x >>,
                         IfWords(<< n_x >>, ReturnStmt(<< a >>)) \o << b >>))
    \o ExprStmt(CallWords(<< n_f >>, << c >>) \o << <<"+">>, <<"1">> >>)

\* let x = a; let f = fn() { let x = b; x }; f(); x;
ShadowingLetWords(a, b) ==
    LetStmt(n_x, << a >>)
    \o LetStmt(n_f, FnWords(<<>>, LetStmt(n_x, << b >>) \o << n_x >>))
    \o ExprStmt(CallWords(<< n_f >>, <<>>))
    \o ExprStmt(<< n_x >>)

\* let x = a; let f = fn(x) { x }; f(b);
ShadowingParamWords(a, b) ==
    LetStmt(n_x, << a >>)
    \o LetStmt(n_f, FnWords(<< n_x >>, << n_x >>))
    \o ExprStmt(CallWords(<< n_f >>, << << b >> >>))

\* let x = a; let x = b; x;
LastWriteWords(a, b) ==
    LetStmt(n_x, << a >>) \o LetStmt(n_x, << b >>) \o ExprStmt(<< n_x >>)

\* let x = a; foobar; x;
UnboundWords(a) ==
    LetStmt(n_x, << a >>) \o ExprStmt(<< n_foobar >>) \o ExprStmt(<< n_x >>)

\* let f = fn(x) { y }; let y = a; f(b);   and   fn(x) { x; }(a)   and   a(b)
OtherCallWords(a, b) ==
    { LetStmt(n_f, FnWords(<< n_x >>, << n_y >>)) \o LetStmt(n_y, << a >>)
          \o ExprStmt(CallWords(<< n_f >>, << << b >> >>)),
      CallWords(FnWords(<< n_x >>, ExprStmt(<< n_x >>)), << << a >> >>),
      ExprStmt(CallWords(<< a >>, << << b >> >>)) }

RuntimeSources ==
    UNION { { ClosureWords(a.word, b.word),
              TwoClosuresWords(a.word, b.word, n_addTwo),
              TwoClosuresWords(a.word, b.word, n_addSix),
              LexicalWords(a.word, b.word),
              PositionalWords(a.word, b.word),
              CallerFrameWords(a.word, b.word),
              ReturnThenWords(a.word),
              IdentityWords(a.word),
              ReturnInIfWords(a.word, b.word, w_true),
              ReturnInIfWords(a.word, b.word, w_false),
              ShadowingLetWords(a.word, b.word),
              ShadowingParamWords(a.word, b.word),
              LastWriteWords(a.word, b.word),
              UnboundWords(a.word) } \cup OtherCallWords(a.word, b.word) :
            a \in RtLiterals, b \in RtLiterals }
    \cup { ArgumentOrderWords, << n_foobar >> }

RuntimeInputs == { Text(ws) : ws \in RuntimeSources }

(***************************************************************************)
(* Runtime driven as its tests drive it (eval/test.rs:11-16): the source   *)
(* is parsed, Runtime::new makes the root Environment, and evaluate runs   *)
(* the program in it one statement at a time.                              *)
(***************************************************************************)
InitRuntime ==
    /\ input \in RuntimeInputs
    /\ mode = "runtime"
    /\ lexer = Unused
    /\ emitted = Unused
    /\ iter_none = Unused
    /\ parser = Parser_new(Lexer_new(input))
    /\ program = <<>>
    /\ pc = "parse_program"
    /\ frame = Unused
    /\ result = Unused
    /\ overflow_checks \in BOOLEAN
    /\ evaluated = Unused
    /\ envs = Unused

\* Runtime::new() and the call of evaluate with the parsed program.
RuntimeNew ==
    /\ mode = "runtime"
    /\ pc = "done"
    /\ envs' = << Environment_new >>
    /\ frame' = [i |-> 1, obj |-> Null]
    /\ pc' = "evaluate"
    /\ UNCHANGED <<input, mode, lexer, emitted, iter_none, parser, program,
                   result, overflow_checks, evaluated>>

\* The statement evaluate has reached, evaluated in the root Environment.
RuntimeStatementResult == rt_eval_statement(program[frame.i], envs, 1)

\* One statement of the program.
RuntimeStep ==
    /\ mode = "runtime"
    /\ pc = "evaluate"
    /\ frame.i <= Len(program)
    /\ CASE RuntimeStatementResult.obj.kind = "Panic" ->
                /\ result' = RuntimeStatementResult.obj
                /\ pc' = "panicked"
                /\ UNCHANGED <<frame, envs>>
         [] RuntimeStatementResult.obj.kind = "ReturnValue" ->
                /\ result' = RuntimeStatementResult.obj.val
                /\ envs' = RuntimeStatementResult.heap
                /\ pc' = "returned"
                /\ UNCHANGED frame
         [] RuntimeStatementResult.obj.kind = "Error" ->
                /\ result' = RuntimeStatementResult.obj
                /\ envs' = RuntimeStatementResult.heap
                /\ pc' = "returned"
                /\ UNCHANGED frame
         [] OTHER ->
                /\ frame' = [i |-> frame.i + 1,
                             obj |-> RuntimeStatementResult.obj]
                /\ envs' = RuntimeStatementResult.heap
                /\ UNCHANGED <<pc, result>>
    /\ UNCHANGED <<input, mode, lexer, emitted, iter_none, parser, program,
                   overflow_checks, evaluated>>

\* The program is over and the value of its last statement is returned.
RuntimeReturn ==
    /\ mode = "runtime"
    /\ pc = "evaluate"
    /\ frame.i > Len(program)
    /\ result' = frame.obj
    /\ pc' = "returned"
    /\ UNCHANGED <<input, mode, lexer, emitted, iter_none, parser, program,
                   frame, overflow_checks, evaluated, envs>>

NextRuntime ==
    \/ ParseProgramStep
    \/ ParseProgramReturn
    \/ RuntimeNew
    \/ RuntimeStep
    \/ RuntimeReturn

SpecRuntime == InitRuntime /\ [][NextRuntime]_vars

(***************************************************************************)
(* The Environment and Runtime drivers together.                           *)
(***************************************************************************)
InitEnvRuntime == InitEnv \/ InitRuntime

NextEnvRuntime == NextEnv \/ NextRuntime

SpecEnvRuntime == InitEnvRuntime /\ [][NextEnvRuntime]_vars


(***************************************************************************)
(* Rendering (impl Display for Expr, ast.rs) as the bytes of the String    *)
(* it writes, and a parse of the text rendered from a first parse.         *)
(***************************************************************************)
\* The decimal digits i32's Display writes for i >= 0.
RECURSIVE int_bytes(_)
int_bytes(i) ==
    LET last == CHOOSE ch \in Digits : DigitValue(ch) = i % 10
    IN  IF i < 10 THEN << last >> ELSE Append(int_bytes(i \div 10), last)

\* impl Display for Operator, as bytes.
operator_bytes(op) ==
    CASE op = "Bang" -> <<"!">>
      [] op = "Plus" -> <<"+">>
      [] op = "Minus" -> <<"-">>
      [] op = "Multiplication" -> <<"*">>
      [] op = "Division" -> <<"/">>
      [] op = "GreaterThan" -> <<">">>
      [] op = "LessThan" -> <<"<">>
      [] op = "Equals" -> <<"=", "=">>
      [] op = "NotEquals" -> <<"!", "=">>

\* A rendering that writes no parentheses.  The round trip must not
\* survive it.
RECURSIVE expr_bytes_bare(_)
expr_bytes_bare(expr) ==
    CASE expr.kind = "Ident" -> expr.val
      [] expr.kind = "IntLiteral" -> int_bytes(expr.val)
      [] expr.kind = "BooleanLiteral" ->
            IF expr.val THEN kw_true ELSE kw_false
      [] expr.kind = "Prefix" ->
            operator_bytes(expr.operator) \o expr_bytes_bare(expr.right)
      [] expr.kind = "Infix" ->
            expr_bytes_bare(expr.left) \o <<" ">>
                \o operator_bytes(expr.operator) \o <<" ">>
                \o expr_bytes_bare(expr.right)

\* impl Display for Expr, for the expressions made of identifiers,
\* literals, prefix and infix operators: "({}{})" and "({} {} {})".
RECURSIVE expr_bytes(_)
expr_bytes(expr) ==
    CASE expr.kind = "Ident" -> expr.val
      [] expr.kind = "IntLiteral" -> int_bytes(expr.val)
      [] expr.kind = "BooleanLiteral" ->
            IF expr.val THEN kw_true ELSE kw_false
      [] expr.kind = "Prefix" ->
            <<"(">> \o operator_bytes(expr.operator)
                \o expr_bytes(expr.right) \o <<")">>
      [] expr.kind = "Infix" ->
            <<"(">> \o expr_bytes(expr.left) \o <<" ">>
                \o operator_bytes(expr.operator) \o <<" ">>
                \o expr_bytes(expr.right) \o <<")">>

\* Expressions with parentheses, literals and stacked prefix operators.
GroupedSources ==
    { << <<"(">>, <<"a">>, <<"+">>, <<"b">>, <<")">>, <<"*">>, <<"c">> >>,
      << <<"a">>, <<"*">>, <<"(">>, <<"b">>, <<"+">>, <<"c">>, <<")">> >>,
      << <<"a">>, <<"-">>, <<"(">>, <<"b">>, <<"-">>, <<"c">>, <<")">> >>,
      << <<"-">>, <<"(">>, <<"a">>, <<"+">>, <<"b">>, <<")">> >>,
      << <<"!">>, <<"(">>, <<"a">>, <<"=", "=">>, <<"b">>, <<")">> >>,
      << <<"(">>, <<"(">>, <<"a">>, <<")">>, <<")">> >>,
      << <<"-">>, <<"-">>, <<"a">> >>,
      << <<"!">>, <<"-">>, <<"a">> >>,
      << <<"a">>, <<"+">>, <<"-">>, <<"b">> >>,
      << <<"a">>, <<"-">>, <<"-">>, <<"b">> >>,
      << <<"a">>, <<"!", "=">>, <<"!">>, <<"b">> >>,
      << <<"5">>, <<"*">>, <<"(">>, <<"3">>, <<"+">>, <<"1", "0">>, <<")">> >>,
      << <<"-">>, <<"5">>, <<"+">>, <<"0", "7">> >>,
      << kw_true, <<"=", "=">>, <<"!">>, kw_false >>,
      << <<"2", "1", "4", "7", "4", "8", "3", "6", "4", "7">> >>,
      << <<"a">> >>,
      << kw_false >> }

RoundTripSources ==
    ChainSources \cup PrefixedChainSources \cup GroupedSources

InitRoundTrip ==
    /\ input \in { Text(ws) : ws \in RoundTripSources }
    /\ envs = Unused
    /\ mode = "roundtrip"
    /\ lexer = Unused
    /\ emitted = Unused
    /\ iter_none = Unused
    /\ parser = Parser_new(Lexer_new(input))
    /\ program = <<>>
    /\ pc = "parse_program"
    /\ frame = Unused
    /\ result = [first |-> <<>>, text |-> <<>>]
    /\ overflow_checks = Unused
    /\ evaluated = Unused

\* The program of the first parse, one expression parsed without errors,
\* is rendered with to_string() and a new parser is made for that text.
RenderAndParseAgain ==
    /\ mode = "roundtrip"
    /\ pc = "done"
    /\ result.text = <<>>
    /\ parser.errors = <<>>
    /\ Len(program) = 1
    /\ program[1].kind = "Expression"
    /\ LET text == expr_bytes(program[1].val)
       IN  /\ result' = [first |-> program, text |-> text]
           /\ input' = text
           /\ parser' = Parser_new(Lexer_new(text))
    /\ program' = <<>>
    /\ pc' = "parse_program"
    /\ UNCHANGED envs
    /\ UNCHANGED <<mode, lexer, emitted, iter_none, frame, overflow_checks,
                   evaluated>>

NextRoundTrip == ParseProgramStep \/ ParseProgramReturn \/ RenderAndParseAgain

SpecRoundTrip == InitRoundTrip /\ [][NextRoundTrip]_vars

(***************************************************************************)
(* The parser's token window driven directly: Parser::new, then step()    *)
(* called again and again, next to the directly driven tokenizer.          *)
(***************************************************************************)
InitStep ==
    /\ input \in LexInputs
    /\ envs = Unused
    /\ mode = "step"
    /\ lexer = Unused
    /\ emitted = Unused
    /\ iter_none = Unused
    /\ parser = Parser_new(Lexer_new(input))
    /\ program = Unused
    /\ pc = Unused
    /\ frame = Unused
    /\ result = Unused
    /\ overflow_checks = Unused
    /\ evaluated = Unused

\* One step() call.
ParserStep ==
    /\ mode = "step"
    /\ parser.lexer.read_position <= Len(input) + 1 + MaxExtraCalls
    /\ parser' = step(parser)
    /\ UNCHANGED envs
    /\ UNCHANGED <<input, mode, lexer, emitted, iter_none, program, pc, frame,
                   result, overflow_checks, evaluated>>

InitLexStep == InitLex \/ InitStep

NextLexStep == NextLex \/ ParserStep

SpecLexStep == InitLexStep /\ [][NextLexStep]_vars

(***************************************************************************)
(* C1                                                                      *)
(***************************************************************************)
\* The indices of the end-of-input tokens returned so far.
EofIndices == { i \in 1..Len(emitted) : emitted[i].kind = "Eof" }

\* The token sequence a caller drains: through the Iterator, every token up
\* to None; by next_token calls, every token up to the first Eof (repl.rs
\* breaks out of its loop there).
Drained ==
    IF mode = "iterator" THEN iter_none ELSE EofIndices # {}

DrainedTokens ==
    IF mode = "iterator"
    THEN emitted
    ELSE SubSeq(emitted, 1, CHOOSE i \in EofIndices : \A j \in EofIndices : i <= j)

\* C1: the token sequence a fresh tokenizer produces, drained by repeated
\* next_token calls or through its Iterator implementation, ends with
\* exactly one Eof token, which is its last element.
C1_EndsWithOneEof ==
    (mode \in { "next_token", "iterator" } /\ Drained) =>
        LET ts == DrainedTokens
        IN  /\ Len(ts) >= 1
            /\ ts[Len(ts)].kind = "Eof"
            /\ \A i \in 1..(Len(ts) - 1) : ts[i].kind # "Eof"

(***************************************************************************)
(* C2                                                                      *)
(***************************************************************************)
OperandA == Ident(<<"a">>)
OperandB == Ident(<<"b">>)
OperandC == Ident(<<"c">>)

\* parse_program has returned for the source made of these words.
Parsed(words) == mode = "parse" /\ pc = "done" /\ input = Text(words)

\* C2: binding follows the precedence table.  For binary operators lo, hi
\* with class(hi) > class(lo), `a lo b hi c` parses to
\* Infix(a, lo, Infix(b, hi, c)) and `a hi b lo c` to
\* Infix(Infix(a, hi, b), lo, c); a prefix operator's operand stops before a
\* following binary operator; a call binds tighter than a prefix operator.
C2_PrecedenceBinding ==
    /\ \A lo, hi \in BinaryOps :
        hi.class > lo.class =>
            /\ Parsed(ChainWords(<<lo, hi>>, 2)) =>
                /\ parser.errors = <<>>
                /\ program = << Expression(
                        Infix(OperandA, lo.operator,
                              Infix(OperandB, hi.operator, OperandC))) >>
            /\ Parsed(ChainWords(<<hi, lo>>, 2)) =>
                /\ parser.errors = <<>>
                /\ program = << Expression(
                        Infix(Infix(OperandA, hi.operator, OperandB),
                              lo.operator, OperandC)) >>
    /\ \A pre \in PrefixOps, op \in BinaryOps :
        Parsed(<<pre.word>> \o ChainWords(<<op>>, 1)) =>
            /\ parser.errors = <<>>
            /\ program = << Expression(
                    Infix(Prefix(pre.operator, OperandA), op.operator,
                          OperandB)) >>
    /\ \A pre \in PrefixOps :
        Parsed(<<pre.word, <<"f">>, <<"(">>, <<"x">>, <<")">> >>) =>
            /\ parser.errors = <<>>
            /\ program = << Expression(
                    Prefix(pre.operator,
                           Call(Ident(<<"f">>), << Ident(<<"x">>) >>))) >>

\* C2 witness: `a + b * c` has been parsed, the product under the sum.
C2_Witness ==
    /\ Parsed(<< <<"a">>, <<"+">>, <<"b">>, <<"*">>, <<"c">> >>)
    /\ program = << Expression(
            Infix(OperandA, "Plus",
                  Infix(OperandB, "Multiplication", OperandC))) >>

(***************************************************************************)
(* C3                                                                      *)
(***************************************************************************)
\* The left-nested tree of the chain e1 op1 e2 ... opn e(n+1).
RECURSIVE LeftNested(_, _)
LeftNested(ops, n) ==
    IF n = 0 THEN Ident(OperandNames[1])
    ELSE Infix(LeftNested(ops, n - 1), ops[n].operator,
               Ident(OperandNames[n + 1]))

SameClassChains ==
    UNION { [1..n -> { op \in BinaryOps : op.class = class }] :
                n \in 1..MaxChain, class \in { op.class : op \in BinaryOps } }

\* C3: a chain of binary operators of one precedence class parses to the
\* left-nested tree.
C3_LeftAssociative ==
    (mode = "parse" /\ pc = "done") =>
        \A ops \in SameClassChains :
            Parsed(ChainWords(ops, Len(ops))) =>
                /\ parser.errors = <<>>
                /\ program = << Expression(LeftNested(ops, Len(ops))) >>

\* C3 witness: `a - b + c - d` has been parsed to ((a - b) + c) - d.
C3_Witness ==
    /\ Parsed(<< <<"a">>, <<"-">>, <<"b">>, <<"+">>, <<"c">>, <<"-">>, <<"d">> >>)
    /\ program = << Expression(
            Infix(Infix(Infix(OperandA, "Minus", OperandB), "Plus", OperandC),
                  "Minus", Ident(<<"d">>))) >>

(***************************************************************************)
(* C4                                                                      *)
(***************************************************************************)
BrokenSeqs == UNION { [1..n -> BrokenStatements] : n \in 1..MaxStatements }

\* C4: after parsing N broken statements back to back, the error list holds
\* exactly the N errors of those statements, in source order.
C4_OneErrorPerBrokenStatement ==
    \A bs \in BrokenSeqs :
        Parsed(Flatten([i \in 1..Len(bs) |-> bs[i].words])) =>
            parser.errors = [i \in 1..Len(bs) |-> bs[i].error]

(***************************************************************************)
(* C5                                                                      *)
(***************************************************************************)
\* C5: every parser loop consumes a token per iteration or stops at Eof:
\* the skip loops of parse_let_statement and parse_return_statement never
\* start an iteration with the current token at Eof, where step() has
\* nothing left to consume and the loop condition cannot change.
C5_LoopsConsumeOrStopAtEof ==
    (/\ mode = "parse_rs"
     /\ pc \in { "let_loop", "return_loop" }
     /\ parser.cur # Tok("Semicolon")) => ~is(parser.cur, Eof)

(***************************************************************************)
(* C6 - C10                                                                *)
(***************************************************************************)
\* Evaluation of the program is over: eval_program returned, or the host
\* aborted.
EvalEnded == mode = "eval" /\ pc \in { "returned", "panicked" }

\* No statement begins after event i.
NoStatementAfter(i) ==
    \A j \in (i + 1)..Len(evaluated) : evaluated[j].ev # "stmt_begin"

\* Event i is the first one that satisfies P.
IsFirst(i, P(_)) ==
    /\ P(evaluated[i])
    /\ \A j \in 1..(i - 1) : ~P(evaluated[j])

StatementError(e) == e.ev = "stmt_end" /\ e.obj.kind = "Error"

\* C6: when a statement evaluates to Error(m), no later statement of its
\* block or of an enclosing block is evaluated and the result of the
\* program is Error(m).
C6_ErrorStopsBlocks ==
    EvalEnded =>
        \A i \in 1..Len(evaluated) :
            IsFirst(i, StatementError) =>
                /\ NoStatementAfter(i)
                /\ result = evaluated[i].obj

ReturnExecuted(e) == e.ev = "stmt_end" /\ e.stmt = "Return"

\* C7: when a return statement is evaluated, no later statement of its
\* block or of an enclosing block is evaluated and the result of the
\* program is the value of the returned expression.
C7_ReturnEscapesBlocks ==
    EvalEnded =>
        \A i \in 1..Len(evaluated) :
            IsFirst(i, ReturnExecuted) =>
                /\ NoStatementAfter(i)
                /\ result = evaluated[i].obj.val

\* C8: the Object that evaluation of a program returns is never a
\* ReturnValue.
C8_NoReturnValueObservable ==
    EvalEnded => result.kind # "ReturnValue"

\* C9: evaluation of a program parsed with zero errors returns an Object:
\* the host is never aborted.
C9_NeverAbortsHost ==
    (EvalEnded /\ parser.errors = <<>>) =>
        /\ pc = "returned"
        /\ result.kind # "Panic"

ExpressionError(e) == e.ev = "expr_end" /\ e.obj.kind = "Error"

\* C10: when a sub-expression evaluates to Error(m), the program evaluates
\* to Error(m), with the same message.
C10_ErrorSurfacesUnchanged ==
    EvalEnded =>
        \A i \in 1..Len(evaluated) :
            IsFirst(i, ExpressionError) => result = evaluated[i].obj

(***************************************************************************)
(* C11                                                                     *)
(***************************************************************************)
\* Runtime has evaluated the program of the source text to its end.
Evaluated(words) ==
    mode = "runtime" /\ pc = "returned" /\ input = Text(words)

\* C11: a function value keeps the environment of its definition after the
\* defining call has returned: newAdder(a) called with b yields a + b, and
\* of two closures made by two calls of newAdder each adds the argument of
\* its own creating call.
C11_ClosureKeepsEnvironment ==
    \A a, b \in RtLiterals :
        /\ Evaluated(ClosureWords(a.word, b.word)) =>
                result = Integer(a.val + b.val)
        /\ Evaluated(TwoClosuresWords(a.word, b.word, n_addTwo)) =>
                result = Integer(a.val + 3)
        /\ Evaluated(TwoClosuresWords(a.word, b.word, n_addSix)) =>
                result = Integer(b.val + 3)

\* C11 witness: let newAdder = fn(x) { fn(y) { x + y }; };
\* let addTwo = newAdder(2); addTwo(3); has been evaluated to Integer(5).
C11_Witness ==
    /\ Evaluated(ClosureWords(<<"2">>, <<"3">>))
    /\ result = Integer(5)

(***************************************************************************)
(* C12                                                                     *)
(***************************************************************************)
\* C12: a call evaluates the body in a fresh frame under the environment of
\* the function's definition: a free name resolves at the definition site
\* even when the caller binds it differently, parameters are bound to the
\* arguments by position, and the arguments are evaluated in the caller's
\* frame from left to right.
C12_LexicalScoping ==
    /\ \A a, b \in RtLiterals :
        /\ Evaluated(LexicalWords(a.word, b.word)) => result = Integer(a.val)
        /\ Evaluated(PositionalWords(a.word, b.word)) =>
                result = Integer(a.val - b.val)
        /\ Evaluated(CallerFrameWords(a.word, b.word)) =>
                result = Integer(b.val - a.val)
    /\ Evaluated(ArgumentOrderWords) =>
            result = Error("No such negative value of true")

\* C12 witness: let x = 2; let f = fn() { x }; let g = fn(x) { f() }; g(7);
\* has been evaluated to Integer(2), the x of the definition site.
C12_Witness ==
    /\ Evaluated(LexicalWords(<<"2">>, <<"7">>))
    /\ result = Integer(2)

(***************************************************************************)
(* C13                                                                     *)
(***************************************************************************)
\* C13: a return executed in a function body ends only that call: the call
\* yields the returned value unwrapped and the caller goes on with the
\* statements after the call.
C13_ReturnEndsOnlyTheCall ==
    \A a, b \in RtLiterals :
        /\ Evaluated(ReturnThenWords(a.word)) => result = Integer(9)
        /\ Evaluated(IdentityWords(a.word)) => result = Integer(a.val)
        /\ Evaluated(ReturnInIfWords(a.word, b.word, w_true)) =>
                result = Integer(a.val + 1)
        /\ Evaluated(ReturnInIfWords(a.word, b.word, w_false)) =>
                result = Integer(b.val + 1)

\* C13 witness: let f = fn(x) { return x; }; f(7); 9; has been evaluated to
\* Integer(9).
C13_Witness ==
    /\ Evaluated(ReturnThenWords(<<"7">>))
    /\ result = Integer(9)

(***************************************************************************)
(* C14                                                                     *)
(***************************************************************************)
\* The frames on the parent chain of the frame e, e itself left out.
RECURSIVE Ancestors(_, _)
Ancestors(heap, e) ==
    IF heap[e].parent = None THEN {}
    ELSE { heap[e].parent[1] } \cup Ancestors(heap, heap[e].parent[1])

\* C14: a set or with on a frame leaves the bindings of every ancestor
\* frame, and what get answers on the ancestor for every name, as they
\* were; a statement other than a let leaves the root frame as it was
\* whatever the calls in it write, and a let in a function body that
\* reuses an outer name leaves the outer binding intact after the call.
C14_WritesAreLocal ==
    [][ /\ (mode = "env" /\ result'.op \in { "set", "with" }) =>
            \A a \in Ancestors(envs, result'.env) :
                /\ envs'[a] = envs[a]
                /\ \A key \in EnvKeys : get(envs', a, key) = get(envs, a, key)
        /\ (mode = "runtime" /\ pc = "evaluate" /\ frame.i <= Len(program)
                /\ program[frame.i].kind # "Let") =>
            envs'[1] = envs[1]
        /\ (mode = "runtime" /\ pc' = "returned") =>
            \A a, b \in RtLiterals :
                input = Text(ShadowingLetWords(a.word, b.word)) =>
                    result' = Integer(a.val)
      ]_vars

\* C14 witness: a frame whose parent binds a has been given its own a by
\* set, with another value.
C14_Witness ==
    /\ mode = "env"
    /\ result.op = "set"
    /\ \E a \in Ancestors(envs, result.env) :
        /\ <<"a">> \in DOMAIN envs[a].store
        /\ <<"a">> \in DOMAIN envs[result.env].store
        /\ envs[a].store[<<"a">>] # envs[result.env].store[<<"a">>]

(***************************************************************************)
(* C15                                                                     *)
(***************************************************************************)
\* The frames searched by a lookup from e that bind the key.
Definers(heap, e, key) ==
    { f \in { e } \cup Ancestors(heap, e) : key \in DOMAIN heap[f].store }

\* C15: get answers the value bound in the nearest frame on the chain that
\* binds the name, and None exactly when no frame on the chain binds it;
\* Runtime turns None into Error("Identifier not found: <name>"), a
\* parameter shadows an outer binding, and the last write of a name wins.
C15_NearestBindingWins ==
    /\ (mode = "env" /\ result.op = "get") =>
        /\ result.value = None <=> Definers(envs, result.env, result.key) = {}
        /\ result.value # None =>
            \E n \in Definers(envs, result.env, result.key) :
                /\ Definers(envs, result.env, result.key)
                        \subseteq { n } \cup Ancestors(envs, n)
                /\ result.value = Some(envs[n].store[result.key])
    /\ Evaluated(<< n_foobar >>) =>
            result = Error("Identifier not found: foobar")
    /\ \A a, b \in RtLiterals :
        /\ Evaluated(UnboundWords(a.word)) =>
                result = Error("Identifier not found: foobar")
        /\ Evaluated(ShadowingParamWords(a.word, b.word)) =>
                result = Integer(b.val)
        /\ Evaluated(LastWriteWords(a.word, b.word)) => result = Integer(b.val)

\* C15 witness: a get has answered from the grandparent of its frame, the
\* frames in between not binding the key.
C15_Witness ==
    /\ mode = "env"
    /\ result.op = "get"
    /\ result.value # None
    /\ result.key \notin DOMAIN envs[result.env].store
    /\ envs[result.env].parent # None
    /\ result.key \notin DOMAIN envs[envs[result.env].parent[1]].store

(***************************************************************************)
(* C16                                                                     *)
(***************************************************************************)
\* Exactly Null and Boolean(false) are falsy.
Truthy(v) == v \notin { Null, Boolean(FALSE) }

\* What eval_program hands out for the Object of its last statement.
Unwrapped(obj) == IF obj.kind = "ReturnValue" THEN obj.val ELSE obj

\* The program is the one expression statement e and has been evaluated
\* without a panic.
EvaluatedExpression(e) ==
    /\ mode = "eval"
    /\ pc = "returned"
    /\ program = << Expression(e) >>

\* C16: !v is Boolean(not truthy(v)) and !!v is Boolean(truthy(v)), where
\* exactly Null and Boolean(false) are falsy; if (c) {A} else {B} yields the
\* value of A when c is truthy, else that of B, and Null when c is falsy
\* and there is no else block.
C16_Truthiness ==
    (mode = "eval" /\ pc = "returned" /\ Len(program) = 1
        /\ program[1].kind = "Expression") =>
        /\ (program[1].val.kind = "Prefix" /\ program[1].val.operator = "Bang") =>
            /\ result = Boolean(~Truthy(eval_expression(program[1].val.right).obj))
            /\ (program[1].val.right.kind = "Prefix"
                    /\ program[1].val.right.operator = "Bang") =>
                result = Boolean(Truthy(
                    eval_expression(program[1].val.right.right).obj))
        /\ program[1].val.kind = "If" =>
            IF Truthy(eval_expression(program[1].val.condition).obj)
            THEN result = Unwrapped(
                    eval_block(program[1].val.consequence, 1, Null).obj)
            ELSE IF program[1].val.alternative = None THEN result = Null
            ELSE result = Unwrapped(
                    eval_block(program[1].val.alternative[1], 1, Null).obj)

\* C16 witness: if (0) { 5 } else { 1 } has been evaluated to Integer(5),
\* Integer(0) being truthy.
C16_Witness ==
    /\ EvaluatedExpression(If(IntLiteral(0),
                              << Expression(IntLiteral(5)) >>,
                              Some(<< Expression(IntLiteral(1)) >>)))
    /\ result = Integer(5)

(***************************************************************************)
(* C17                                                                     *)
(***************************************************************************)
\* The operand types the infix operator op is defined on.
AllowedOperands(op, l, r) ==
    \/ l.kind = "Integer" /\ r.kind = "Integer"
    \/ op \in { "Equals", "NotEquals" } /\ l.kind = "Boolean" /\ r.kind = "Boolean"

\* The kind of the value of op on allowed operands.
ValueKind(op) ==
    IF op \in { "Plus", "Minus", "Multiplication", "Division" }
    THEN "Integer" ELSE "Boolean"

\* C17: an infix operation on operands of allowed types (two Integers, or
\* two Booleans for == and !=) yields an Integer for + - * / and a Boolean
\* for < > == !=, and on every other combination of operand types yields
\* an Error; 5 + true yields Error("Cannot add 5 to true").
C17_InfixOperandTypes ==
    (EvalEnded /\ Len(program) = 1 /\ program[1].kind = "Expression"
        /\ program[1].val.kind = "Infix"
        /\ eval_expression(program[1].val.left).obj.kind # "Panic"
        /\ eval_expression(program[1].val.right).obj.kind # "Panic") =>
        /\ IF AllowedOperands(program[1].val.operator,
                              eval_expression(program[1].val.left).obj,
                              eval_expression(program[1].val.right).obj)
           THEN result.kind = ValueKind(program[1].val.operator)
           ELSE result.kind = "Error"
        /\ program[1].val = Infix(IntLiteral(5), "Plus", BooleanLiteral(TRUE)) =>
            result = Error("Cannot add 5 to true")

(***************************************************************************)
(* C18                                                                     *)
(***************************************************************************)
\* The punctuation and operator characters of next_token's match.
Punctuation ==
    { "=", "!", ",", ";", "(", ")", "{", "}", "+", "-", "*", "/", "<", ">" }

\* A byte that starts no token and is not skipped.
Unrecognised(ch) ==
    /\ ~is_ascii_whitespace(ch)
    /\ ch \notin Punctuation
    /\ ~is_ascii_alphabetic(ch)
    /\ ch # "_"
    /\ ~is_ascii_digit(ch)

\* C18: the tokenizer never fails.  Whenever a token is returned, with the
\* cursor (after the skipped whitespace) on a byte of the buffer that is
\* not whitespace, punctuation, an operator character, a letter, '_' or a
\* digit (a non-ASCII byte and an embedded NUL byte included), that token
\* is Illegal and the cursor moves on by one byte; and an Eof token is
\* returned only with the cursor at the end of the buffer.
C18_IllegalForUnrecognisedBytes ==
    [][(mode \in { "next_token", "iterator" } /\ emitted' # emitted) =>
        LET l == skip_whitespace(lexer)
            tok == emitted'[Len(emitted')]
        IN  /\ (l.position < Len(input) /\ Unrecognised(l.ch)) =>
                /\ tok = Tok("Illegal")
                /\ lexer'.position = l.position + 1
            /\ tok.kind = "Eof" => l.position >= Len(input)]_vars

(***************************************************************************)
(* C19                                                                     *)
(***************************************************************************)
\* C19: a block may contain no statement.  `if (c) { }`,
\* `if (c) { x } else { }` and `fn() { }` each parse to the If or
\* FuncLiteral node whose block is the empty statement sequence, and the
\* parser's error list stays empty.
C19_EmptyBlocksParse ==
    /\ Parsed(<< kw_if, <<"(">>, <<"c">>, <<")">>, <<"{">>, <<"}">> >>) =>
        /\ parser.errors = <<>>
        /\ program = << Expression(If(Ident(<<"c">>), <<>>, None)) >>
    /\ Parsed(<< kw_if, <<"(">>, <<"c">>, <<")">>, <<"{">>, <<"x">>, <<"}">>,
                 kw_else, <<"{">>, <<"}">> >>) =>
        /\ parser.errors = <<>>
        /\ program = << Expression(If(Ident(<<"c">>),
                                       << Expression(Ident(<<"x">>)) >>,
                                       Some(<<>>))) >>
    /\ Parsed(<< kw_fn, <<"(">>, <<")">>, <<"{">>, <<"}">> >>) =>
        /\ parser.errors = <<>>
        /\ program = << Expression(FuncLiteral(<<>>, <<>>)) >>

(***************************************************************************)
(* C20                                                                     *)
(***************************************************************************)
\* The digits of 2^63 - 1.
I64MaxDigits ==
    <<"9", "2", "2", "3", "3", "7", "2", "0", "3", "6", "8", "5", "4", "7",
      "7", "5", "8", "0", "7">>

\* A digit run without its leading zeros (one digit is always kept).
RECURSIVE Significant(_)
Significant(lit) ==
    IF Len(lit) > 1 /\ Head(lit) = "0" THEN Significant(Tail(lit)) ELSE lit

\* a <= b for digit runs of one length.
RECURSIVE DigitsLeq(_, _)
DigitsLeq(a, b) ==
    \/ a = <<>>
    \/ DigitValue(Head(a)) < DigitValue(Head(b))
    \/ Head(a) = Head(b) /\ DigitsLeq(Tail(a), Tail(b))

\* The digit run denotes a value from 0 to 2^63 - 1.
FitsI64(lit) ==
    LET sig == Significant(lit)
    IN  \/ Len(sig) < Len(I64MaxDigits)
        \/ Len(sig) = Len(I64MaxDigits) /\ DigitsLeq(sig, I64MaxDigits)

\* C20: integer literals span the 64-bit signed range.  A digit run that
\* denotes a value from 0 to 2^63 - 1 parses to the IntLiteral leaf holding
\* exactly that value, with no parse error; only a digit run outside that
\* range produces the integer-parse error instead of a node.
C20_IntLiteralsSpanI64 ==
    \A lit \in IntLiteralRuns :
        Parsed(<< lit >>) =>
            IF FitsI64(lit)
            THEN /\ parser.errors = <<>>
                 /\ Len(program) = 1
                 /\ program[1].kind = "Expression"
                 /\ program[1].val.kind = "IntLiteral"
                 /\ ToString(program[1].val.val) = Str(Significant(lit))
            ELSE /\ program = <<>>
                 /\ parser.errors = << ParseIntError(lit) >>

(***************************************************************************)
(* C21                                                                     *)
(***************************************************************************)
\* Well-formed statements, each with the statement it parses to.
WellFormedStatements ==
    { [words |-> << kw_let, <<"x">>, <<"=">>, <<"5">>, <<";">> >>,
       stmt |-> Let(<<"x">>, IntLiteral(5))],
      [words |-> << kw_return, <<"5">>, <<";">> >>,
       stmt |-> Return(IntLiteral(5))] }

\* C21: parsing resynchronizes at the next statement boundary.  A
\* well-formed statement that follows a broken one is parsed, and the
\* program returned holds that statement alone: nothing is made of the
\* leftover tokens of the broken statement.
C21_ResyncAtStatementBoundary ==
    \A b \in BrokenStatements, w \in WellFormedStatements :
        Parsed(b.words \o w.words) => program = << w.stmt >>

(***************************************************************************)
(* C22                                                                     *)
(***************************************************************************)
\* C22: a let statement yields the value it binds, and one whose value is a
\* propagating sentinel yields that sentinel: `let x = 5;` evaluates to
\* Integer(5) and `let x = -true;` to the Error of `-true`.
C22_LetYieldsBoundValue ==
    /\ (EvalEnded /\ input = Text(LetStmt(<<"x">>, w_5))) =>
            result = Integer(5)
    /\ (EvalEnded /\ input = Text(LetStmt(<<"x">>, << <<"-">>, kw_true >>))) =>
            result = Error("No such negative value of true")

(***************************************************************************)
(* C23                                                                     *)
(***************************************************************************)
\* The byte after the cursor of lexer l is `=`.
FollowedByAssign(l) ==
    l.position + 2 <= Len(input) /\ input[l.position + 2] = "="

\* C23: two-character operators are resolved with one byte of look-ahead.
\* Whenever a token is returned with the cursor (after the skipped
\* whitespace) on `=` or `!`: if the next byte of the buffer is `=` the
\* token is Equal or NotEqual and the cursor moves on by two bytes;
\* otherwise it is Assign or Bang and the cursor moves on by one byte, the
\* following byte left for the next token.  So `===` is Equal, Assign and
\* `!==` is NotEqual, Assign.
C23_OneByteLookAhead ==
    [][(mode \in { "next_token", "iterator" } /\ emitted' # emitted) =>
        LET l == skip_whitespace(lexer)
            tok == emitted'[Len(emitted')]
            here == l.position < Len(input)
        IN  /\ (here /\ l.ch = "=") =>
                IF FollowedByAssign(l)
                THEN tok = Tok("Equal") /\ lexer'.position = l.position + 2
                ELSE tok = Tok("Assign") /\ lexer'.position = l.position + 1
            /\ (here /\ l.ch = "!") =>
                IF FollowedByAssign(l)
                THEN tok = Tok("NotEqual") /\ lexer'.position = l.position + 2
                ELSE tok = Tok("Bang") /\ lexer'.position = l.position + 1
            /\ (input = <<"=", "=", "=">> /\ Len(emitted') = 2) =>
                emitted' = << Tok("Equal"), Tok("Assign") >>
            /\ (input = <<"!", "=", "=">> /\ Len(emitted') = 2) =>
                emitted' = << Tok("NotEqual"), Tok("Assign") >>]_vars

\* `!==` has been scanned to its end: NotEqual, Assign, Eof.
C23_Witness ==
    /\ mode = "next_token"
    /\ input = <<"!", "=", "=">>
    /\ emitted = << Tok("NotEqual"), Tok("Assign"), Eof >>

(***************************************************************************)
(* C24                                                                     *)
(***************************************************************************)
IsIdentifierByte(ch) == is_ascii_alphabetic(ch) \/ ch = "_"

\* The bytes of the maximal run of bytes satisfying the test of class
\* ("identifier" or "number") that starts at index i of the buffer.
RunFrom(i, class) ==
    LET InClass(ch) == IF class = "identifier" THEN IsIdentifierByte(ch)
                       ELSE is_ascii_digit(ch)
        end == CHOOSE j \in i..Len(input) :
                    /\ \A k \in i..j : InClass(input[k])
                    /\ j = Len(input) \/ ~InClass(input[j + 1])
    IN  SubSeq(input, i, end)

\* The keyword table: the token of each keyword.
KeywordToken(run) ==
    CASE run = <<"l", "e", "t">> -> Tok("Let")
      [] run = <<"f", "n">> -> Tok("Function")
      [] run = <<"i", "f">> -> Tok("If")
      [] run = <<"e", "l", "s", "e">> -> Tok("Else")
      [] run = <<"r", "e", "t", "u", "r", "n">> -> Tok("Return")
      [] run = <<"t", "r", "u", "e">> -> Tok("True")
      [] run = <<"f", "a", "l", "s", "e">> -> Tok("False")

\* C24: whenever a token is returned with the cursor (after the skipped
\* whitespace) on a letter or underscore, the token covers the maximal run
\* of letters and underscores from there: it is the keyword token when the
\* whole run is exactly let, fn, if, else, return, true or false, and
\* otherwise Ident carrying the run unchanged.  With the cursor on a digit
\* the token is Int carrying the maximal run of digits.
C24_MaximalRunsAndKeywords ==
    [][(mode \in { "next_token", "iterator" } /\ emitted' # emitted) =>
        LET l == skip_whitespace(lexer)
            tok == emitted'[Len(emitted')]
            here == l.position < Len(input)
        IN  /\ (here /\ IsIdentifierByte(l.ch)) =>
                LET run == RunFrom(l.position + 1, "identifier")
                IN  /\ lexer'.position = l.position + Len(run)
                    /\ tok = IF run \in KeywordBuffers
                             THEN KeywordToken(run)
                             ELSE TokLit("Ident", run)
            /\ (here /\ is_ascii_digit(l.ch)) =>
                LET run == RunFrom(l.position + 1, "number")
                IN  /\ lexer'.position = l.position + Len(run)
                    /\ tok = TokLit("Int", run)]_vars

\* `fn1` has been scanned to its end: the keyword, then the number.
C24_Witness ==
    /\ mode = "next_token"
    /\ input = <<"f", "n", "1">>
    /\ emitted = << Tok("Function"), TokLit("Int", <<"1">>), Eof >>

(***************************************************************************)
(* C25                                                                     *)
(***************************************************************************)
\* C25: end-of-input is absorbing.  A next_token call made with the cursor
\* at the end of the buffer returns Eof and leaves the cursor there; and
\* once the parser's current token is Eof, its peek token is Eof too and
\* both are still Eof after a further step().
C25_EofIsAbsorbing ==
    [][/\ (mode = "next_token" /\ emitted' # emitted
                /\ lexer.position >= Len(input)) =>
            /\ emitted'[Len(emitted')] = Eof
            /\ lexer'.position >= Len(input)
       /\ (mode = "step" /\ parser' # parser /\ parser.cur = Eof) =>
            /\ parser.peek = Eof
            /\ parser'.cur = Eof
            /\ parser'.peek = Eof]_vars

(***************************************************************************)
(* C26                                                                     *)
(***************************************************************************)
\* C26: the parent links form a finite acyclic chain that ends at a root
\* without parent.  In every state each frame's parent is a frame created
\* before it (the first frame has none), and no operation (child_of, set,
\* with, get) changes the parent of a frame that exists; so every lookup
\* walks strictly downwards through the frames and ends.
C26_ParentChainAcyclic ==
    /\ [](mode = "env" =>
            /\ envs[1].parent = None
            /\ \A e \in 1..Len(envs) :
                envs[e].parent # None => envs[e].parent[1] \in 1..(e - 1))
    /\ [][mode = "env" =>
            \A e \in 1..Len(envs) : envs'[e].parent = envs[e].parent]_vars

\* C26 witness: a get on the last frame of a chain of MaxEnvs frames has
\* walked the whole chain down to the root and answered None.
C26_Witness ==
    /\ mode = "env"
    /\ Len(envs) = MaxEnvs
    /\ \A e \in 2..Len(envs) : envs[e].parent = Some(e - 1)
    /\ result.op = "get"
    /\ result.env = MaxEnvs
    /\ result.value = None

(***************************************************************************)
(* C27                                                                     *)
(***************************************************************************)
\* The frames from c up to, and without, its ancestor p.
Nearer(heap, c, p) ==
    ({ c } \cup Ancestors(heap, c)) \ ({ p } \cup Ancestors(heap, p))

\* C27: a child frame refers to its live parent.  Right after a set on a
\* frame p, every frame c below p that was created before that set answers,
\* for each name bound in p that neither c nor a frame between them binds,
\* the value p holds now.
C27_LiveParentReference ==
    (mode = "env" /\ result.op = "set") =>
        LET p == result.env
        IN  \A c \in 1..Len(envs) :
                p \in Ancestors(envs, c) =>
                    \A key \in DOMAIN envs[p].store :
                        (\A n \in Nearer(envs, c, p) :
                                key \notin DOMAIN envs[n].store) =>
                            get(envs, c, key) = Some(envs[p].store[key])

\* C27 witness: the set that came last, after the grandchild of the root
\* was created, wrote the one name the root binds, and the grandchild,
\* which like the frame between them binds nothing, reads that value.
C27_Witness ==
    /\ mode = "env"
    /\ result = [op |-> "set", env |-> 1]
    /\ Len(envs) = 3
    /\ envs[2] = child_of(1)
    /\ envs[3] = child_of(2)
    /\ DOMAIN envs[1].store = { <<"a">> }
    /\ get(envs, 3, <<"a">>) = Some(envs[1].store[<<"a">>])

(***************************************************************************)
(* C28                                                                     *)
(***************************************************************************)
\* C28: Environment::with binds by position over the shorter of its two
\* sequences.  On a frame just made by child_of, for all keys and values:
\* the frame binds exactly the first n keys, n the shorter length; each of
\* them holds the value at its last position among those n; a key beyond
\* the n-th that is not among them is answered by the parent chain; and
\* every other frame, and the frame's parent link, are as before.
C28_WithZipsShorter ==
    (mode = "env" /\ result.op = "child_of") =>
        LET e == result.env
        IN  \A keys \in SeqsUpTo(EnvKeys, MaxPairs),
               values \in SeqsUpTo(EnvValues, MaxPairs) :
                LET h == with(envs, e, keys, values)
                    n == IF Len(keys) < Len(values) THEN Len(keys)
                         ELSE Len(values)
                    bound == { keys[i] : i \in 1..n }
                IN  /\ Len(h) = Len(envs)
                    /\ \A f \in 1..Len(envs) : f # e => h[f] = envs[f]
                    /\ h[e].parent = envs[e].parent
                    /\ DOMAIN h[e].store = bound
                    /\ \A i \in 1..n :
                        (\A j \in (i + 1)..n : keys[j] # keys[i]) =>
                            h[e].store[keys[i]] = values[i]
                    /\ \A i \in (n + 1)..Len(keys) :
                        keys[i] \notin bound =>
                            get(h, e, keys[i])
                                = get(envs, envs[e].parent[1], keys[i])

\* C28 witness: with has bound a alone in a new frame, and b, unbound
\* there, is answered by the parent chain: what with(<<a, b>>, <<v>>)
\* leaves.
C28_Witness ==
    /\ mode = "env"
    /\ result.op = "with"
    /\ DOMAIN envs[result.env].store = { <<"a">> }
    /\ get(envs, result.env, <<"b">>) # None

(***************************************************************************)
(* C29                                                                     *)
(***************************************************************************)
\* The text rendered from a first parse has been parsed to its end.
ParsedAgain == mode = "roundtrip" /\ pc = "done" /\ result.text # <<>>

\* C29: rendering and parsing round-trip.  For a source expression of
\* identifiers, literals, prefix and infix operators and parentheses that
\* parses without errors, the text rendered from its AST parses without
\* errors to that same AST, whose rendering is that same text.
C29_RenderParseRoundTrip ==
    ParsedAgain =>
        /\ parser.errors = <<>>
        /\ program = result.first
        /\ expr_bytes(program[1].val) = result.text

\* C29 witness: `( a + b ) * c`, which the precedences alone would parse
\* otherwise, has been rendered as ((a + b) * c) and parsed again.
C29_Witness ==
    /\ ParsedAgain
    /\ Str(result.text) = "((a + b) * c)"
    /\ program = << Expression(Infix(Infix(Ident(<<"a">>), "Plus", Ident(<<"b">>)),
                                     "Multiplication", Ident(<<"c">>))) >>

(***************************************************************************)
(* C30                                                                     *)
(***************************************************************************)
\* C30: a block is ended by end-of-input as well as by `}`.  When the
\* input ends inside a block that holds at least one statement, the parse
\* finishes with an empty error list and with the AST of the same input
\* closed by `}`.
C30_BlockEndsAtEof ==
    \A b \in BlockSources :
        /\ Parsed(b.words) =>
            /\ parser.errors = <<>>
            /\ program = << Expression(b.expr) >>
        /\ Parsed(Append(b.words, <<"}">>)) =>
            /\ parser.errors = <<>>
            /\ program = << Expression(b.expr) >>

\* C30 witness: `if ( x ) { y`, cut off inside its block, has been parsed
\* to the if-expression without an error.
C30_Witness ==
    /\ Parsed(<< kw_if, <<"(">>, <<"x">>, <<")">>, <<"{">>, <<"y">> >>)
    /\ parser.errors = <<>>
    /\ program = << Expression(If(Ident(<<"x">>),
                                  << Expression(Ident(<<"y">>)) >>, None)) >>

=============================================================================
